---- MODULE Spec2Model ----
(***************************************************************************)
(* Model of the environment-to-struct binding engine of kzs0/kokoro        *)
(* (package env, src/k/stack.go lines 49-894).                             *)
(*                                                                         *)
(* A Go string is a sequence of one-character strings, so that prefix      *)
(* tests, splitting, expansion and number parsing are computed character   *)
(* by character as the code (and the Go library it calls) computes them.   *)
(* One bind (Parse / GetFieldParams) is single-threaded and synchronous,   *)
(* so each public entry point is one action; the recursive walk is a       *)
(* family of recursive operators threading the state the walk mutates.     *)
(***************************************************************************)
EXTENDS Integers, Sequences, FiniteSets, TLC

(***************************************************************************)
(* Strings                                                                 *)
(***************************************************************************)
Digits == <<"0", "1", "2", "3", "4", "5", "6", "7", "8", "9">>

DigitSet == {Digits[i] : i \in 1..10}

DigitVal(c) == (CHOOSE i \in 1..10 : Digits[i] = c) - 1

LetterSet ==
  {"a","b","c","d","e","f","g","h","i","j","k","l","m",
   "n","o","p","q","r","s","t","u","v","w","x","y","z",
   "A","B","C","D","E","F","G","H","I","J","K","L","M",
   "N","O","P","Q","R","S","T","U","V","W","X","Y","Z"}

underscore == "_"

\* strings.HasPrefix
HasPrefix(s, p) == Len(p) <= Len(s) /\ SubSeq(s, 1, Len(p)) = p

\* strings.HasSuffix
HasSuffix(s, p) == Len(p) <= Len(s) /\ SubSeq(s, Len(s) - Len(p) + 1, Len(s)) = p

\* fmt's %d of a non-negative int
RECURSIVE Itoa(_)
Itoa(n) == IF n < 10 THEN <<Digits[n + 1]>>
           ELSE Itoa(n \div 10) \o <<Digits[(n % 10) + 1]>>

\* the digits of a negative int, computed below zero
RECURSIVE NegDigits(_)
NegDigits(n) ==
  IF n > -10 THEN <<Digits[1 - n]>>
  ELSE LET r == (10 - (n % 10)) % 10
       IN NegDigits((n + r) \div 10) \o <<Digits[r + 1]>>

\* strconv.FormatInt(n, 10) of an int
FormatInt(n) == IF n < 0 THEN <<"-">> \o NegDigits(n) ELSE Itoa(n)

\* strings.Split(s, sep) for a one-character separator: the pieces between
\* the separators, in order (always at least one piece).
RECURSIVE SplitFrom(_, _, _, _)
SplitFrom(s, sep, i, cur) ==
  IF i > Len(s) THEN <<cur>>
  ELSE IF s[i] = sep THEN <<cur>> \o SplitFrom(s, sep, i + 1, <<>>)
  ELSE SplitFrom(s, sep, i + 1, Append(cur, s[i]))

Split(s, sep) == SplitFrom(s, sep, 1, <<>>)

(***************************************************************************)
(* Errors (src/env/errors.go).  nil is NoErr; an error carries its         *)
(* sentinel and the key or field its message names.                        *)
(***************************************************************************)
NoErr == [kind |-> "nil", key |-> <<>>, field |-> ""]

\* an error of tag or value resolution, naming the fully-qualified key
Err(kind, key) == [kind |-> kind, key |-> key, field |-> ""]

\* an error of set, naming the Go field
FieldErr(kind, name) == [kind |-> kind, key |-> <<>>, field |-> name]

\* F applied to v: the value v is computed once and F's parameter names it,
\* as a local variable of the code names the result of a call.
Let(v, F(_)) == F(v)

(***************************************************************************)
(* strconv.ParseInt / ParseUint / ParseBool as the built-in parsers call   *)
(* them, and the formatting they invert.  A numeral is a non-empty         *)
(* sequence of digit characters, most significant first.  A number the     *)
(* checker's integers cannot hold (beyond 32 bits) is the record           *)
(* [neg, mag] of its sign and the numeral of its magnitude, without        *)
(* leading zeros.                                                          *)
(***************************************************************************)
RECURSIVE DigitsValue(_, _)
DigitsValue(s, acc) ==
  IF s = <<>> THEN acc ELSE DigitsValue(Tail(s), acc * 10 + DigitVal(Head(s)))

\* the value of the negative number with magnitude s, computed below zero
RECURSIVE NegDigitsValue(_, _)
NegDigitsValue(s, acc) ==
  IF s = <<>> THEN acc
  ELSE NegDigitsValue(Tail(s), acc * 10 - DigitVal(Head(s)))

RECURSIVE StripZeros(_)
StripZeros(ds) ==
  IF Len(ds) > 1 /\ Head(ds) = "0" THEN StripZeros(Tail(ds)) ELSE ds

\* a <= b for numerals of the same length
RECURSIVE LexLeq(_, _)
LexLeq(a, b) ==
  IF a = <<>> THEN TRUE
  ELSE IF DigitVal(Head(a)) < DigitVal(Head(b)) THEN TRUE
  ELSE IF DigitVal(Head(a)) > DigitVal(Head(b)) THEN FALSE
  ELSE LexLeq(Tail(a), Tail(b))

\* a <= b for numerals without leading zeros
DecLeq(a, b) == Len(a) < Len(b) \/ (Len(a) = Len(b) /\ LexLeq(a, b))

\* the numeral of 2^n, for the widths of Go's integer kinds
Pow2(n) ==
  CASE n = 7  -> <<"1", "2", "8">>
    [] n = 8  -> <<"2", "5", "6">>
    [] n = 15 -> <<"3", "2", "7", "6", "8">>
    [] n = 16 -> <<"6", "5", "5", "3", "6">>
    [] n = 31 -> <<"2", "1", "4", "7", "4", "8", "3", "6", "4", "8">>
    [] n = 32 -> <<"4", "2", "9", "4", "9", "6", "7", "2", "9", "6">>
    [] n = 63 -> <<"9", "2", "2", "3", "3", "7", "2", "0", "3", "6",
                 "8", "5", "4", "7", "7", "5", "8", "0", "8">>
    [] n = 64 -> <<"1", "8", "4", "4", "6", "7", "4", "4", "0", "7",
                 "3", "7", "0", "9", "5", "5", "1", "6", "1", "6">>

\* the numeral of 2^n - 1, n > 0: a power of two above 1 ends in 2, 4, 6
\* or 8, so only its last digit changes
DecrementLast(h) == [h EXCEPT ![Len(h)] = Digits[DigitVal(h[Len(h)])]]

Pow2Minus1(n) == DecrementLast(Pow2(n))

\* the syntax of base-10 ParseInt: an optional sign, then digits only
SignedSyntax(s) ==
  LET sign == s # <<>> /\ Head(s) \in {"-", "+"}
      ds   == IF sign THEN Tail(s) ELSE s
  IN [ok  |-> ds # <<>> /\ \A i \in 1..Len(ds) : ds[i] \in DigitSet,
      neg |-> s # <<>> /\ Head(s) = "-",
      ds  |-> ds]

\* strconv.ParseInt(s, 10, bitSize): the number as [neg, mag], with -0 = 0
ParseSigned(s, bitSize) ==
  Let(SignedSyntax(s),
      LAMBDA x :
    IF ~x.ok THEN [ok |-> FALSE, neg |-> FALSE, mag |-> <<"0">>]
    ELSE Let(StripZeros(x.ds),
             LAMBDA mag :
           IF x.neg /\ DecLeq(mag, Pow2(bitSize - 1))
             THEN [ok |-> TRUE, neg |-> mag # <<"0">>, mag |-> mag]
           ELSE IF ~x.neg /\ DecLeq(mag, Pow2Minus1(bitSize - 1))
             THEN [ok |-> TRUE, neg |-> FALSE, mag |-> mag]
           ELSE [ok |-> FALSE, neg |-> FALSE, mag |-> <<"0">>]))

\* strconv.ParseUint(s, 10, bitSize): digits only, no sign
ParseUnsigned(s, bitSize) ==
  IF s = <<>> \/ \E i \in 1..Len(s) : s[i] \notin DigitSet
    THEN [ok |-> FALSE, neg |-> FALSE, mag |-> <<"0">>]
  ELSE Let(StripZeros(s),
           LAMBDA mag :
         IF DecLeq(mag, Pow2Minus1(bitSize))
           THEN [ok |-> TRUE, neg |-> FALSE, mag |-> mag]
           ELSE [ok |-> FALSE, neg |-> FALSE, mag |-> <<"0">>])

\* the integer a number of at most 32 bits is
ToInt(n) == IF n.neg THEN NegDigitsValue(n.mag, 0) ELSE DigitsValue(n.mag, 0)

\* ParseInt for a width of at most 32 bits: the integer
ParseInt(s, bitSize) ==
  Let(ParseSigned(s, bitSize),
      LAMBDA n : IF n.ok THEN [ok |-> TRUE, v |-> ToInt(n)]
                 ELSE [ok |-> FALSE, v |-> 0])

\* strconv.ParseBool
ParseBool(s) ==
  IF s \in {<<"1">>, <<"t">>, <<"T">>, <<"T", "R", "U", "E">>,
            <<"t", "r", "u", "e">>, <<"T", "r", "u", "e">>}
    THEN [ok |-> TRUE, v |-> TRUE]
  ELSE IF s \in {<<"0">>, <<"f">>, <<"F">>, <<"F", "A", "L", "S", "E">>,
                 <<"f", "a", "l", "s", "e">>, <<"F", "a", "l", "s", "e">>}
    THEN [ok |-> TRUE, v |-> FALSE]
  ELSE [ok |-> FALSE, v |-> FALSE]

(***************************************************************************)
(* Field Tag Resolver                                                      *)
(*                                                                         *)
(* A struct field declaration is a record                                  *)
(*   name    the Go field name                                             *)
(*   type    the field's type (see the type constructors below)            *)
(*   key     the first comma segment of the `env` tag                      *)
(*   tagopts the remaining comma segments of the `env` tag, in order       *)
(*   prefix  the value of the `envPrefix` tag                              *)
(*   hasDef  whether an `envDefault` tag is declared, def its value        *)
(***************************************************************************)
FieldParams(ownKey, key, def, hasDef, required) ==
  [OwnKey |-> ownKey, Key |-> key, DefaultValue |-> def,
   HasDefaultValue |-> hasDef, Required |-> required, LoadFile |-> FALSE,
   Unset |-> FALSE, NotEmpty |-> FALSE, Expand |-> FALSE, Init |-> FALSE,
   Ignored |-> ownKey = <<"-">>]

ZeroFieldParams == FieldParams(<<>>, <<>>, <<>>, FALSE, FALSE)

\* The switch with no default case: an unknown token is passed over.
ApplyTagOption_AnyToken(res, tag) ==
  IF res.err # NoErr THEN res
  ELSE CASE tag = "file"     -> [res EXCEPT !.p.LoadFile = TRUE]
         [] tag = "required" -> [res EXCEPT !.p.Required = TRUE]
         [] tag = "unset"    -> [res EXCEPT !.p.Unset = TRUE]
         [] tag = "notEmpty" -> [res EXCEPT !.p.NotEmpty = TRUE]
         [] tag = "expand"   -> [res EXCEPT !.p.Expand = TRUE]
         [] tag = "init"     -> [res EXCEPT !.p.Init = TRUE]
         [] tag = "-"        -> [res EXCEPT !.p.Ignored = TRUE]
         [] OTHER            -> res

\* The switch over one option token of the tag (stack.go 600-620).
ApplyTagOption(res, tag) ==
  IF res.err # NoErr THEN res
  ELSE CASE tag = ""         -> res
         [] tag = "file"     -> [res EXCEPT !.p.LoadFile = TRUE]
         [] tag = "required" -> [res EXCEPT !.p.Required = TRUE]
         [] tag = "unset"    -> [res EXCEPT !.p.Unset = TRUE]
         [] tag = "notEmpty" -> [res EXCEPT !.p.NotEmpty = TRUE]
         [] tag = "expand"   -> [res EXCEPT !.p.Expand = TRUE]
         [] tag = "init"     -> [res EXCEPT !.p.Init = TRUE]
         [] tag = "-"        -> [res EXCEPT !.p.Ignored = TRUE]
         [] OTHER            -> [p |-> ZeroFieldParams,
                                 err |-> Err("ErrNoSupportedTagOption", <<>>)]

RECURSIVE ApplyTagOptions(_, _)
ApplyTagOptions(res, tags) ==
  IF tags = <<>> THEN res
  ELSE ApplyTagOptions(ApplyTagOption(res, Head(tags)), Tail(tags))

parseFieldParams(field, opts) ==
  ApplyTagOptions(
    [p   |-> FieldParams(field.key, opts.Prefix \o field.key, field.def,
                         field.hasDef, opts.RequiredIfNoDef),
     err |-> NoErr],
    field.tagopts)

(***************************************************************************)
(* Value Resolver                                                          *)
(***************************************************************************)
\* getOr without its second case: a key present with the empty string
\* does not fall back to the default.
getOr_NoEmptyFallback(key, defaultValue, defExists, envs) ==
  LET exists == key \in DOMAIN envs
      value  == IF exists THEN envs[key] ELSE <<>>
  IN IF (~exists \/ key = <<>>) /\ defExists
       THEN [val |-> defaultValue, exists |-> TRUE, isDefault |-> TRUE]
     ELSE IF ~exists
       THEN [val |-> <<>>, exists |-> FALSE, isDefault |-> FALSE]
     ELSE [val |-> value, exists |-> TRUE, isDefault |-> FALSE]

getOr(key, defaultValue, defExists, envs) ==
  LET exists == key \in DOMAIN envs
      value  == IF exists THEN envs[key] ELSE <<>>
  IN IF (~exists \/ key = <<>>) /\ defExists
       THEN [val |-> defaultValue, exists |-> TRUE, isDefault |-> TRUE]
     ELSE IF exists /\ value = <<>> /\ defExists
       THEN [val |-> defaultValue, exists |-> TRUE, isDefault |-> TRUE]
     ELSE IF ~exists
       THEN [val |-> <<>>, exists |-> FALSE, isDefault |-> FALSE]
     ELSE [val |-> value, exists |-> TRUE, isDefault |-> FALSE]

\* The lookup with the two sources swapped: the snapshot first.
getRawEnv_SnapshotFirst(raw, envs, s) ==
  LET val == IF s \in DOMAIN envs THEN envs[s] ELSE <<>>
  IN IF val = <<>>
       THEN (IF s \in DOMAIN raw THEN raw[s] ELSE <<>>)
       ELSE val

\* Options.getRawEnv: the raw-value table first, the snapshot when the
\* table has nothing (or the empty string) for the name.
getRawEnv(raw, envs, s) ==
  LET val == IF s \in DOMAIN raw THEN raw[s] ELSE <<>>
  IN IF val = <<>>
       THEN (IF s \in DOMAIN envs THEN envs[s] ELSE <<>>)
       ELSE val

\* os.Expand's helpers (Go standard library, called at stack.go 637).
isShellSpecialVar(c) ==
  c \in ({"*", "#", "$", "@", "!", "?", "-"} \cup DigitSet)

isAlphaNum(c) == c = underscore \/ c \in DigitSet \/ c \in LetterSet

RECURSIVE ScanWhile(_, _)
\* number of leading alphanumerics of s from position i on
ScanWhile(s, i) ==
  IF i <= Len(s) /\ isAlphaNum(s[i]) THEN 1 + ScanWhile(s, i + 1) ELSE 0

RECURSIVE ScanBrace(_, _)
\* position of the first closing brace of s at or after i, 0 when none
ScanBrace(s, i) ==
  IF i > Len(s) THEN 0 ELSE IF s[i] = "}" THEN i ELSE ScanBrace(s, i + 1)

\* getShellName(s), s non-empty: the name and the bytes consumed
getShellName(s) ==
  CASE s[1] = "{" ->
         IF Len(s) > 2 /\ isShellSpecialVar(s[2]) /\ s[3] = "}"
           THEN [name |-> <<s[2]>>, w |-> 3]
           ELSE LET c == ScanBrace(s, 2)
                IN IF c = 0 THEN [name |-> <<>>, w |-> 1]
                   ELSE IF c = 2 THEN [name |-> <<>>, w |-> 2]
                   ELSE [name |-> SubSeq(s, 2, c - 1), w |-> c]
    [] isShellSpecialVar(s[1]) -> [name |-> <<s[1]>>, w |-> 1]
    [] OTHER -> LET n == ScanWhile(s, 1)
                IN [name |-> SubSeq(s, 1, n), w |-> n]

RECURSIVE ExpandFrom(_, _, _, _)
ExpandFrom(s, j, raw, envs) ==
  IF j > Len(s) THEN <<>>
  ELSE IF s[j] = "$" /\ j + 1 <= Len(s)
    THEN LET sn  == getShellName(SubSeq(s, j + 1, Len(s)))
             out == IF sn.name = <<>> /\ sn.w > 0 THEN <<>>
                    ELSE IF sn.name = <<>> THEN <<"$">>
                    ELSE getRawEnv(raw, envs, sn.name)
         IN out \o ExpandFrom(s, j + sn.w + 1, raw, envs)
    ELSE <<s[j]>> \o ExpandFrom(s, j + 1, raw, envs)

\* os.Expand(val, opts.getRawEnv)
Expand(s, raw, envs) == ExpandFrom(s, 1, raw, envs)

(***************************************************************************)
(* The state one bind threads through the walk (ctx):                      *)
(*   raw    Options.rawEnvVars, the raw-value table (own key -> value)     *)
(*   live   the live process environment os.Unsetenv acts on               *)
(*   fs     the file system os.ReadFile reads (path -> contents)           *)
(*   result the FieldParams list GetFieldParamsWithOptions collects        *)
(*   trace  what happened, in order: one event per call of the leaf        *)
(*          action ("leaf"), per write of the raw-value table ("raw", with *)
(*          the own key), per return of get ("get"), per observer call     *)
(*          ("onset"), per call of set ("set") and per return of           *)
(*          doParseField ("ret"); path is the field's position in the      *)
(*          target (field numbers from 1, slice indices from 0)            *)
(*   panic  whether the bind has panicked (the panic unwinds the walk:     *)
(*          nothing after it runs)                                         *)
(***************************************************************************)
Ev(e, path, key, val, err, def) ==
  [e |-> e, path |-> path, key |-> key, val |-> val, err |-> err, def |-> def]

Log(ctx, ev) == [ctx EXCEPT !.trace = Append(@, ev)]

\* map assignment m[k] = v
Put(m, k, v) == [x \in DOMAIN m \cup {k} |-> IF x = k THEN v ELSE m[x]]

\* os.Unsetenv
Unsetenv(live, k) == [x \in DOMAIN live \ {k} |-> live[x]]

\* The read whose error is dropped: a missing file reads as empty.
getFromFile_ErrorDropped(fs, filename) ==
  [val |-> IF filename \in DOMAIN fs THEN fs[filename] ELSE <<>>, ok |-> TRUE]

\* getFromFile / os.ReadFile against the file system fs (path -> contents)
getFromFile(fs, filename) ==
  IF filename \in DOMAIN fs
    THEN [val |-> fs[filename], ok |-> TRUE]
    ELSE [val |-> <<>>, ok |-> FALSE]

\* The observer called for a field without an own key too.
NotifyOnSet_AnyOwnKey(ctx, fp, opts, path, val, isDefault) ==
  IF opts.OnSet
    THEN Log(ctx, Ev("onset", path, fp.Key, val, NoErr, isDefault))
    ELSE ctx

\* The observer call at the end of get (stack.go 663-667).
NotifyOnSet(ctx, fp, opts, path, val, isDefault) ==
  IF opts.OnSet /\ fp.OwnKey # <<>>
    THEN Log(ctx, Ev("onset", path, fp.Key, val, NoErr, isDefault))
    ELSE ctx

\* The required check made for a field without an own key too.
RequiredViolation_AnyOwnKey(fp, exists) == fp.Required /\ ~exists

\* The required check of get (stack.go 646).
RequiredViolation(fp, exists) ==
  fp.Required /\ ~exists /\ Len(fp.OwnKey) > 0

\* The notEmpty check never made.
EmptyViolation_Never(fp, val) == FALSE

\* The notEmpty check of get (stack.go 650).
EmptyViolation(fp, val) == fp.NotEmpty /\ val = <<>>

\* The resolved value recorded under the fully-qualified key.
record_UnderKey(fp, ctx, val) == [ctx EXCEPT !.raw = Put(@, fp.Key, val)]

\* opts.rawEnvVars[fieldParams.OwnKey] = val (stack.go 640)
record(fp, ctx, val) == [ctx EXCEPT !.raw = Put(@, fp.OwnKey, val)]

\* The key removed from the snapshot instead of the process environment.
unset_FromSnapshot(fp, ctx) ==
  IF fp.Unset THEN [ctx EXCEPT !.env = Unsetenv(@, fp.Key)] ELSE ctx

\* the deferred os.Unsetenv(fieldParams.Key) of get (stack.go 642-644): it
\* acts on the process environment, and the map opts.Environment (ctx.env,
\* shared by every copy of the options) is left alone
unset(fp, ctx) ==
  IF fp.Unset THEN [ctx EXCEPT !.live = Unsetenv(@, fp.Key)] ELSE ctx

\* The removal made only when get returns no error.
Deferred_OnSuccess(fp, r) ==
  IF r.err = NoErr THEN [r EXCEPT !.ctx = unset(fp, @)] ELSE r

\* the deferred call runs when get returns r, on every return path
Deferred(fp, r) == [r EXCEPT !.ctx = unset(fp, @)]

\* get: the value of one field, or the error of its resolution.
get(fp, opts, ctx0, path) ==
  Let(getOr(fp.Key, fp.DefaultValue, fp.HasDefaultValue, ctx0.env),
      LAMBDA g :
  Let(IF fp.Expand THEN Expand(g.val, ctx0.raw, ctx0.env) ELSE g.val,
      LAMBDA val :
  \* rawEnvVars is written before any check
  Let(Log(record(fp, ctx0, val),
          Ev("raw", path, fp.OwnKey, val, NoErr, g.isDefault)),
      LAMBDA ctx1 :
  Let(getFromFile(ctx0.fs, val),
      LAMBDA file :
    Deferred(fp,
      IF RequiredViolation(fp, g.exists)
        THEN [val |-> <<>>, err |-> Err("ErrVarIsNotSet", fp.Key),
              ctx |-> ctx1]
      ELSE IF EmptyViolation(fp, val)
        THEN [val |-> <<>>, err |-> Err("ErrEmptyVar", fp.Key), ctx |-> ctx1]
      ELSE IF fp.LoadFile /\ val # <<>> /\ ~file.ok
        THEN [val |-> <<>>, err |-> Err("ErrLoadFileContent", fp.Key),
              ctx |-> ctx1]
      ELSE IF fp.LoadFile /\ val # <<>>
        THEN [val |-> file.val, err |-> NoErr,
              ctx |-> NotifyOnSet(ctx1, fp, opts, path, file.val,
                                  g.isDefault)]
      ELSE [val |-> val, err |-> NoErr,
            ctx |-> NotifyOnSet(ctx1, fp, opts, path, val, g.isDefault)])))))

(***************************************************************************)
(* Types and values                                                        *)
(*                                                                         *)
(* type       value                                                        *)
(* string     a string                                                     *)
(* int        an integer                                                   *)
(* ptr        [nil, v]: v is the pointee (the zero value when nil)         *)
(* slice      [nil, elems]: elems a sequence                               *)
(* map        [nil, m]: m a function from keys to values                   *)
(* struct     the sequence of its fields' values, in declaration order     *)
(***************************************************************************)
TString == [k |-> "string"]

TInt == [k |-> "int"]

\* the type of a built-in kind: "bool", "int8", ..., "uint"
TKind(k) == [k |-> k]

\* the sized and unsigned integer kinds; their values are numbers [neg, mag]
SignedKinds == {"int8", "int16", "int32", "int64"}

UnsignedKinds == {"uint8", "uint16", "uint32", "uint64", "uint"}

NumberKinds == SignedKinds \cup UnsignedKinds

Number(neg, mag) == [neg |-> neg, mag |-> mag]

\* a defined type of a built-in kind, e.g. type Level string; tm: the
\* pointer to the type implements encoding.TextUnmarshaler
TNamed(name, kind, tm) == [k |-> kind, name |-> name, tm |-> tm]

\* reflect.New(t).Interface().(encoding.TextUnmarshaler) succeeds
IsTextUnmarshaler(t) == "tm" \in DOMAIN t /\ t.tm

\* time.Duration
TDuration == TNamed("time.Duration", "int64", FALSE)

\* a kind with no built-in parser; its values are pairs [re, im]
TComplex == TKind("complex128")

TPtr(t) == [k |-> "ptr", elem |-> t]

TSlice(t) == [k |-> "slice", elem |-> t]

TMap(kt, vt) == [k |-> "map", key |-> kt, elem |-> vt]

\* name is the struct type's name; "" for an unnamed struct type
TStruct(name, fields) == [k |-> "struct", name |-> name, fields |-> fields]

EmptyMap == [x \in {} |-> 0]

RECURSIVE Zero(_)
Zero(t) ==
  CASE t.k = "string" -> <<>>
    [] t.k = "int"    -> 0
    [] t.k = "bool"   -> FALSE
    [] t.k \in NumberKinds -> Number(FALSE, <<"0">>)
    [] t.k = "complex128" -> [re |-> 0, im |-> 0]
    [] t.k = "ptr"    -> [nil |-> TRUE, v |-> Zero(t.elem)]
    [] t.k = "slice"  -> [nil |-> TRUE, elems |-> <<>>]
    [] t.k = "map"    -> [nil |-> TRUE, m |-> EmptyMap]
    [] t.k = "struct" -> [i \in 1..Len(t.fields) |-> Zero(t.fields[i].type)]

\* reflect.New(t): a non-nil pointer to a zero value
New(t) == [nil |-> FALSE, v |-> Zero(t)]

(***************************************************************************)
(* Type Parser Registry: the built-in parsers by kind                      *)
(***************************************************************************)
HasBuiltInParser(t) ==
  t.k \in {"string", "int", "bool"} \cup NumberKinds

\* the bitSize each integer parser hands to strconv: the machine-width
\* kinds int and uint are parsed with 32
ParserBits(k) ==
  CASE k \in {"int8", "uint8"}   -> 8
    [] k \in {"int16", "uint16"} -> 16
    [] k \in {"int32", "uint32"} -> 32
    [] k \in {"int64", "uint64"} -> 64
    [] k \in {"int", "uint"}     -> 32

AsNumber(r) == [ok |-> r.ok, v |-> Number(r.neg, r.mag)]

\* defaultBuiltInParsers[kind](v)
BuiltInParse(t, v) ==
  CASE t.k = "string" -> [ok |-> TRUE, v |-> v]
    [] t.k = "int"    -> ParseInt(v, ParserBits(t.k))
    [] t.k = "bool"   -> ParseBool(v)
    [] t.k \in SignedKinds   -> AsNumber(ParseSigned(v, ParserBits(t.k)))
    [] t.k \in UnsignedKinds -> AsNumber(ParseUnsigned(v, ParserBits(t.k)))

(***************************************************************************)
(* Type Parser Registry: the concrete-type table and the functions in it   *)
(***************************************************************************)
NineZeros == [i \in 1..9 |-> "0"]

\* time.ParseDuration for the strings the programs below use: "0", or a
\* signed run of digits with the unit "s"; the value in nanoseconds
ParseDuration(v) ==
  Let(SignedSyntax(v),
      LAMBDA x :
    IF x.ok /\ StripZeros(x.ds) = <<"0">>
      THEN [ok |-> TRUE, v |-> Number(FALSE, <<"0">>)]
    ELSE IF v # <<>> /\ v[Len(v)] = "s"
      THEN Let(SignedSyntax(SubSeq(v, 1, Len(v) - 1)),
               LAMBDA y :
             IF ~y.ok THEN [ok |-> FALSE, v |-> Number(FALSE, <<"0">>)]
             ELSE IF StripZeros(y.ds) = <<"0">>
               THEN [ok |-> TRUE, v |-> Number(FALSE, <<"0">>)]
             ELSE IF DecLeq(StripZeros(y.ds) \o NineZeros, Pow2Minus1(63))
               THEN [ok |-> TRUE,
                     v |-> Number(y.neg, StripZeros(y.ds) \o NineZeros)]
             ELSE [ok |-> FALSE, v |-> Number(FALSE, <<"0">>)])
    ELSE [ok |-> FALSE, v |-> Number(FALSE, <<"0">>)])

\* parseDuration
parseDuration(v) == ParseDuration(v)

\* the parser a program registers for its string type T (Level or Name):
\*   func(v string) (interface{}, error) {
\*     if v == "" { return nil, errEmpty }; return T("F" + v), nil }
parseNamed(v) ==
  IF v = <<>> THEN [ok |-> FALSE, v |-> <<>>] ELSE [ok |-> TRUE, v |-> <<"F">> \o v]

\* the parser a program registers for its struct type Item:
\*   func(v string) (interface{}, error) {
\*     if v == "" { return nil, errEmpty }; return Item{N: v}, nil }
parseItem(v) ==
  IF v = <<>> THEN [ok |-> FALSE, v |-> <<>>]
  ELSE [ok |-> TRUE, v |-> <<v, 0, <<>>>>]

\* the method a program gives its type Level:
\*   func (l *Level) UnmarshalText(b []byte) error {
\*     if len(b) == 0 { return errEmpty }; *l = Level("T" + string(b)) }
UnmarshalText(t, text) ==
  IF text = <<>> THEN [ok |-> FALSE, v |-> <<>>]
  ELSE [ok |-> TRUE, v |-> <<"T">> \o text]

\* defaultTypeParsers(): the entry for time.Duration (the entries for
\* url.URL and time.Location are types no program below uses)
defaultTypeParsers == (TDuration :> "parseDuration")

\* funcMap[t] exists
InFuncMap(funcMap, t) == t \in DOMAIN funcMap

\* funcMap[t](v)
ApplyParser(funcMap, t, v) ==
  CASE funcMap[t] = "parseDuration" -> parseDuration(v)
    [] funcMap[t] = "parseNamed"    -> parseNamed(v)
    [] funcMap[t] = "parseItem"     -> parseItem(v)

(***************************************************************************)
(* Scalar / collection leaf parsing                                        *)
(***************************************************************************)
\* the parser handleSlice picks for the elements: the type's UnmarshalText
\* (parseTextUnmarshalers) if it has one, else the concrete-type entry,
\* else the built-in parser of the kind
ElemParse(funcMap, typee, v) ==
  IF IsTextUnmarshaler(typee) THEN UnmarshalText(typee, v)
  ELSE IF InFuncMap(funcMap, typee) THEN ApplyParser(funcMap, typee, v)
  ELSE BuiltInParse(typee, v)

\* handleSlice with the default separator: a list of scalars.
RECURSIVE ParseParts(_, _, _, _)
\* the loop of handleSlice (stack.go 769-781): stops at the first bad part
ParseParts(parts, typee, isPtr, funcMap) ==
  IF parts = <<>> THEN [ok |-> TRUE, elems |-> <<>>]
  ELSE LET r    == ElemParse(funcMap, typee, Head(parts))
           rest == ParseParts(Tail(parts), typee, isPtr, funcMap)
       IN IF ~r.ok \/ ~rest.ok THEN [ok |-> FALSE, elems |-> <<>>]
          ELSE [ok |-> TRUE,
                elems |-> <<IF isPtr THEN [nil |-> FALSE, v |-> r.v] ELSE r.v>>
                          \o rest.elems]

handleSlice(fv, value, t, funcMap) ==
  LET parts == Split(value, ",")
      isPtr == t.elem.k = "ptr"
      typee == IF isPtr THEN t.elem.elem ELSE t.elem
      r     == ParseParts(parts, typee, isPtr, funcMap)
  IN IF /\ ~IsTextUnmarshaler(typee) /\ ~InFuncMap(funcMap, typee)
        /\ ~HasBuiltInParser(typee)
       THEN [v |-> fv, err |-> "ErrNoParser"]
     ELSE IF ~r.ok THEN [v |-> fv, err |-> "ErrParseValue"]
     ELSE [v |-> [nil |-> FALSE, elems |-> r.elems], err |-> "nil"]

\* the parser handleMap picks for keys and for values: the concrete-type
\* entry, else the built-in parser of the kind
MapParse(funcMap, t, v) ==
  IF InFuncMap(funcMap, t) THEN ApplyParser(funcMap, t, v)
  ELSE BuiltInParse(t, v)

\* The loop keeping the first value of a key instead of the last.
RECURSIVE ParsePairs_FirstWins(_, _, _, _, _)
ParsePairs_FirstWins(parts, keyType, elemType, funcMap, acc) ==
  IF parts = <<>> THEN [ok |-> TRUE, m |-> acc]
  ELSE LET pairs == Split(Head(parts), ":")
           key   == MapParse(funcMap, keyType, pairs[1])
           elem  == MapParse(funcMap, elemType, pairs[2])
       IN IF Len(pairs) # 2 THEN [ok |-> FALSE, m |-> acc]
          ELSE IF ~key.ok THEN [ok |-> FALSE, m |-> acc]
          ELSE IF ~elem.ok THEN [ok |-> FALSE, m |-> acc]
          ELSE ParsePairs_FirstWins(Tail(parts), keyType, elemType, funcMap,
                 IF key.v \in DOMAIN acc THEN acc ELSE Put(acc, key.v, elem.v))

\* The loop of handleMap (stack.go 816-836) over the pairs, left to right:
\* a later pair with the same key overwrites the earlier one.
RECURSIVE ParsePairs(_, _, _, _, _)
ParsePairs(parts, keyType, elemType, funcMap, acc) ==
  IF parts = <<>> THEN [ok |-> TRUE, m |-> acc]
  ELSE LET pairs == Split(Head(parts), ":")
           key   == MapParse(funcMap, keyType, pairs[1])
           elem  == MapParse(funcMap, elemType, pairs[2])
       IN IF Len(pairs) # 2 THEN [ok |-> FALSE, m |-> acc]
          ELSE IF ~key.ok THEN [ok |-> FALSE, m |-> acc]
          ELSE IF ~elem.ok THEN [ok |-> FALSE, m |-> acc]
          ELSE ParsePairs(Tail(parts), keyType, elemType, funcMap,
                          Put(acc, key.v, elem.v))

handleMap(fv, value, t, funcMap) ==
  LET r == ParsePairs(Split(value, ","), t.key, t.elem, funcMap, EmptyMap)
  IN IF ~InFuncMap(funcMap, t.key) /\ ~HasBuiltInParser(t.key)
       THEN [v |-> fv, err |-> "ErrNoParser"]
     ELSE IF ~InFuncMap(funcMap, t.elem) /\ ~HasBuiltInParser(t.elem)
       THEN [v |-> fv, err |-> "ErrNoParser"]
     ELSE IF ~r.ok THEN [v |-> fv, err |-> "ErrParseValue"]
     ELSE [v |-> [nil |-> FALSE, m |-> r.m], err |-> "nil"]

\* asTextUnmarshaler's side effect: a nil pointer field is allocated before
\* the type is asked for its text-unmarshal capability (stack.go 843-846).
Allocated(fv, t) ==
  IF t.k = "ptr" /\ fv.nil THEN New(t.elem) ELSE fv

\* what set leaves in the field f1 of type t when the parser it picked
\* returned r
Stored(f1, t, r) ==
  IF ~r.ok THEN [v |-> f1, err |-> "ErrParseValue"]
  ELSE IF t.k = "ptr" THEN [v |-> [f1 EXCEPT !.v = r.v], err |-> "nil"]
  ELSE [v |-> r.v, err |-> "nil"]

\* set: parse value into the field; the new field value and the error kind.
\* The type's UnmarshalText is asked first, then the concrete-type table,
\* then the built-in parsers by kind.
set(fv, t, value, funcMap) ==
  LET f1    == Allocated(fv, t)
      typee == IF t.k = "ptr" THEN t.elem ELSE t
  IN IF IsTextUnmarshaler(typee)
       THEN Stored(f1, t, UnmarshalText(typee, value))
     ELSE IF InFuncMap(funcMap, typee)
       THEN Stored(f1, t, ApplyParser(funcMap, typee, value))
     ELSE IF HasBuiltInParser(typee)
       THEN Stored(f1, t, BuiltInParse(typee, value))
     ELSE IF t.k = "slice" THEN handleSlice(f1, value, t, funcMap)
     ELSE IF t.k = "map" THEN handleMap(f1, value, t, funcMap)
     ELSE [v |-> f1, err |-> "ErrNoParser"]

\* The parser run for an empty value too.
ShouldSet_Always(value) == TRUE

\* if value != "" (stack.go 539)
ShouldSet(value) == value # <<>>

\* setField, the leaf action of Parse.
setField(fv, field, opts, fp, ctx, path) ==
  Let(get(fp, opts, ctx, path),
      LAMBDA g :
  Let(Log(g.ctx, Ev("get", path, fp.Key, g.val, g.err, FALSE)),
      LAMBDA c :
    IF g.err # NoErr THEN [v |-> fv, err |-> g.err, ctx |-> c]
    ELSE IF ShouldSet(g.val)
      THEN Let(set(fv, field.type, g.val, opts.FuncMap),
               LAMBDA r :
             Let(IF r.err = "nil" THEN NoErr ELSE FieldErr(r.err, field.name),
                 LAMBDA err :
               [v |-> r.v, err |-> err,
                ctx |-> Log(c, Ev("set", path, fp.Key, g.val, err, FALSE))]))
    ELSE [v |-> fv, err |-> NoErr, ctx |-> c]))

\* The leaf action of GetFieldParamsWithOptions (stack.go 343-348).
collectParams(fv, field, opts, fp, ctx, path) ==
  [v |-> fv, err |-> NoErr,
   ctx |-> IF fp.OwnKey # <<>>
             THEN [ctx EXCEPT !.result = Append(@, fp)]
             ELSE ctx]

processField(mode, fv, field, opts, fp, ctx, path) ==
  Let(Log(ctx, Ev("leaf", path, fp.Key, <<>>, NoErr, FALSE)),
      LAMBDA c :
    IF mode = "setField"
      THEN setField(fv, field, opts, fp, c, path)
      ELSE collectParams(fv, field, opts, fp, c, path))

(***************************************************************************)
(* Recursive Struct Walker and Slice Assembler                             *)
(***************************************************************************)
optionsWithSliceEnvPrefix(opts, index) ==
  [opts EXCEPT !.Prefix = opts.Prefix \o Itoa(index) \o <<underscore>>]

\* The prefix replaced by the field's tag instead of extended by it.
optionsWithEnvPrefix_Replaced(field, opts) ==
  [opts EXCEPT !.Prefix = field.prefix]

optionsWithEnvPrefix(field, opts) ==
  [opts EXCEPT !.Prefix = opts.Prefix \o field.prefix]

isStructPtr(t) == t.k = "ptr" /\ t.elem.k = "struct"

isSliceOfStructs(t, opts) ==
  LET f1 == IF t.k = "ptr" THEN t.elem ELSE t
      f2 == f1.elem
      f3 == IF f2.k = "ptr" THEN f2.elem ELSE f2
  IN IF f1.k # "slice" THEN FALSE
     ELSE ~(HasBuiltInParser(f3) \/ InFuncMap(opts.FuncMap, f3)
            \/ IsTextUnmarshaler(f3) \/ f3.k # "struct")

\* The scan with the prefix dropped: every key of the environment matches.
SlicePrefix_Dropped(prefix) == <<>>

\* The prefix the Slice Assembler scans with (stack.go 470-472).
SlicePrefix(prefix) ==
  IF prefix # <<>> /\ ~HasSuffix(prefix, <<underscore>>)
    THEN prefix \o <<underscore>>
    ELSE prefix

\* The count without the stop at the first gap: every index up to 9 that
\* some key carries is counted.
CountFrom_PastGaps(environments, prefix, counter) ==
  Cardinality({i \in 0..9 :
                 \E variable \in environments :
                   HasPrefix(variable, prefix \o Itoa(i) \o <<underscore>>)})

\* The counting loop (stack.go 482-493): probe 0, 1, ... until no key of
\* environments carries the index-qualified prefix.
RECURSIVE CountFrom(_, _, _)
CountFrom(environments, prefix, counter) ==
  IF \E variable \in environments :
       HasPrefix(variable, prefix \o Itoa(counter) \o <<underscore>>)
    THEN CountFrom(environments, prefix, counter + 1)
    ELSE counter

RECURSIVE doParseFrom(_, _, _, _, _, _, _, _)
RECURSIVE doParseField(_, _, _, _, _, _)
RECURSIVE doParseItems(_, _, _, _, _, _, _, _, _)

\* What the loop of doParse does with the error of one field (stack.go
\* 380-382): the join is assigned to the loop's own err, so errs keeps the
\* value it had.
Accumulate(errs, err) == errs

\* ref.Type().NumField() at the head of doParse (stack.go 372-375) panics
\* when ref is not a struct.
Panics(t) == t.k # "struct"

\* the bind panics here
Panic(ctx) == [ctx EXCEPT !.panic = TRUE]

\* doParse: the loop over the fields i..n of the struct value sv.
doParseFrom(sv, t, i, errs, mode, opts, ctx, path) ==
  IF i > Len(t.fields) THEN [v |-> sv, err |-> errs, ctx |-> ctx]
  ELSE Let(doParseField(sv[i], t.fields[i], mode, opts, ctx, Append(path, i)),
           LAMBDA r :
         IF r.ctx.panic
           THEN [v |-> [sv EXCEPT ![i] = r.v], err |-> errs, ctx |-> r.ctx]
         ELSE
         doParseFrom([sv EXCEPT ![i] = r.v], t, i + 1,
                     IF r.err # NoErr THEN Accumulate(errs, r.err) ELSE errs,
                     mode, opts,
                     Log(r.ctx, Ev("ret", Append(path, i),
                                   opts.Prefix \o t.fields[i].key, <<>>,
                                   r.err, FALSE)),
                     path))

\* doParse (and parseInternal on a pointer to a struct): errs starts nil, a
\* joined error is the sequence of the errors joined.
doParse(sv, t, mode, opts, ctx, path) ==
  IF Panics(t) THEN [v |-> sv, err |-> <<>>, ctx |-> Panic(ctx)]
  ELSE doParseFrom(sv, t, 1, <<>>, mode, opts, ctx, path)

\* The error value doParseField hands on from a nested doParse.
AsErr(errs) == IF errs = <<>> THEN NoErr ELSE [kind |-> "join", key |-> <<>>,
                                               field |-> "", errs |-> errs]

\* The loop of doParseSlice over the items i..capacity-1 of result
\* (stack.go 510-518).
doParseItems(result, ref, initialized, i, t, mode, opts, ctx, path) ==
  IF i >= Len(result) THEN [v |-> result, err |-> NoErr, ctx |-> ctx]
  ELSE Let(doParse(IF i < initialized THEN ref[i + 1] ELSE result[i + 1], t,
                   mode, optionsWithSliceEnvPrefix(opts, i), ctx,
                   Append(path, i)),
           LAMBDA r :
         IF r.ctx.panic \/ r.err # <<>>
           THEN [v |-> result, err |-> AsErr(r.err), ctx |-> r.ctx]
           ELSE doParseItems([result EXCEPT ![i + 1] = r.v], ref, initialized,
                             i + 1, t, mode, opts, r.ctx, path))

\* doParseSlice once the keys carrying the prefix are counted
\* (stack.go 495-530).
doParseCounted(fv, ft, mode, opts, ctx, path, counter) ==
  LET isPtr       == ft.k = "ptr"
      sliceType   == IF isPtr THEN ft.elem ELSE ft
      initialized == IF isPtr THEN 0 ELSE Len(fv.elems)
      capacity    == IF counter > initialized THEN counter ELSE initialized
  IN Let(doParseItems([i \in 1..capacity |-> Zero(sliceType.elem)],
                      IF isPtr THEN <<>> ELSE fv.elems, initialized, 0,
                      sliceType.elem, mode, opts, ctx, path),
         LAMBDA r :
       IF r.ctx.panic \/ r.err # NoErr
         THEN [v |-> fv, err |-> r.err, ctx |-> r.ctx]
       ELSE IF Len(r.v) > 0
         THEN [v |-> IF isPtr
                       THEN [nil |-> FALSE,
                             v |-> [nil |-> FALSE, elems |-> r.v]]
                       ELSE [nil |-> FALSE, elems |-> r.v],
               err |-> NoErr, ctx |-> r.ctx]
         ELSE [v |-> fv, err |-> NoErr, ctx |-> r.ctx])

doParseSlice(fv, ft, mode, opts0, ctx, path) ==
  Let([opts0 EXCEPT !.Prefix = SlicePrefix(@)],
      LAMBDA opts :
  Let({e \in DOMAIN ctx.env : HasPrefix(e, opts.Prefix)},
      LAMBDA environments :
    IF environments = {} THEN [v |-> fv, err |-> NoErr, ctx |-> ctx]
    ELSE doParseCounted(fv, ft, mode, opts, ctx, path,
                        CountFrom(environments, opts.Prefix, 0))))

\* The allocation made whether or not the field is tagged init.
ShouldInit_Untagged(init, t, fv) == isStructPtr(t) /\ fv.nil

\* params.Init && isStructPtr(refField) && refField.IsNil() (stack.go 417)
ShouldInit(init, t, fv) == init /\ isStructPtr(t) /\ fv.nil

\* doParseField from the call of the leaf action on (stack.go 412-434);
\* pf is what the leaf action returned.
doParseProcessed(field, mode, opts, path, init, pf) ==
  LET t      == field.type
      \* stack.go 417-424: the nil pointer of an init field is allocated
      doInit == ShouldInit(init, t, pf.v)
      f1     == IF doInit THEN New(t.elem) ELSE pf.v
      \* the value and type refField denotes from line 419 on
      inner  == IF doInit THEN f1.v ELSE f1
      innerT == IF doInit THEN t.elem ELSE t
  IN IF pf.err # NoErr THEN pf
     ELSE IF doInit /\ InFuncMap(opts.FuncMap, innerT)
       THEN [v |-> f1, err |-> NoErr, ctx |-> pf.ctx]
     ELSE IF innerT.k = "struct"
       THEN Let(doParse(inner, innerT, mode,
                        optionsWithEnvPrefix(field, opts), pf.ctx, path),
                LAMBDA nested :
              [v |-> IF doInit THEN [f1 EXCEPT !.v = nested.v]
                     ELSE nested.v,
               err |-> AsErr(nested.err), ctx |-> nested.ctx])
     ELSE IF isSliceOfStructs(t, opts)
       THEN doParseSlice(f1, t, mode, optionsWithEnvPrefix(field, opts),
                         pf.ctx, path)
     ELSE [v |-> f1, err |-> NoErr, ctx |-> pf.ctx]

doParseField(fv, field, mode, opts, ctx, path) ==
  LET t == field.type
  IN IF ~field.exported THEN [v |-> fv, err |-> NoErr, ctx |-> ctx]
     ELSE IF t.k = "ptr" /\ t.elem.k = "struct" /\ ~fv.nil
       THEN Let(doParse(fv.v, t.elem, mode,
                        optionsWithEnvPrefix(field, opts), ctx, path),
                LAMBDA r :
              [v |-> [fv EXCEPT !.v = r.v], err |-> AsErr(r.err),
               ctx |-> r.ctx])
     ELSE IF t.k = "struct" /\ t.name = ""
       THEN Let(doParse(fv, t, mode, optionsWithEnvPrefix(field, opts),
                        ctx, path),
                LAMBDA r :
              [v |-> r.v, err |-> AsErr(r.err), ctx |-> r.ctx])
     ELSE Let(parseFieldParams(field, opts),
              LAMBDA pr :
            IF pr.err # NoErr THEN [v |-> fv, err |-> pr.err, ctx |-> ctx]
            ELSE IF pr.p.Ignored THEN [v |-> fv, err |-> NoErr, ctx |-> ctx]
            ELSE doParseProcessed(field, mode, opts, path, pr.p.Init,
                                  processField(mode, fv, field, opts, pr.p,
                                               ctx, path)))

(***************************************************************************)
(* The programs and environments the model is checked on                   *)
(***************************************************************************)
\* number of binds in one behaviour
MaxCalls == 1

\* largest slice index spelled in an environment key
MaxIdx == 2

\* largest length of a pre-populated slice
MaxPre == 2

\* a field declaration with its tags
Fld(name, type, key, tagopts, prefix, hasDef, def) ==
  [name |-> name, type |-> type, key |-> key, tagopts |-> tagopts,
   prefix |-> prefix, hasDef |-> hasDef, def |-> def, exported |-> TRUE]

\* the option tokens of a tag, in a fixed order
OptionOrder == <<"required", "notEmpty", "expand", "file", "unset", "init",
                 "-", "bogus">>

RECURSIVE Tokens(_, _)
Tokens(S, i) ==
  IF i > Len(OptionOrder) THEN <<>>
  ELSE (IF OptionOrder[i] \in S THEN <<OptionOrder[i]>> ELSE <<>>)
       \o Tokens(S, i + 1)

TagOpts(S) == Tokens(S, 1)

\* an environment: the keys of S that are set, with their values
EnvOf(S) == [k \in {p[1] : p \in S} |-> (CHOOSE p \in S : p[1] = k)[2]]

\* a value a caller may have stored in the target before the bind
RECURSIVE Populated(_)
Populated(t) ==
  CASE t.k = "string" -> <<"q">>
    [] t.k = "int"    -> 3
    [] t.k = "bool"   -> TRUE
    [] t.k \in NumberKinds -> Number(FALSE, <<"3">>)
    [] t.k = "complex128" -> [re |-> 3, im |-> 0]
    [] t.k = "ptr"    -> [nil |-> FALSE, v |-> Populated(t.elem)]
    [] t.k = "slice"  -> [nil |-> FALSE, elems |-> <<Populated(t.elem)>>]
    [] t.k = "map"    ->
         [nil |-> FALSE, m |-> (Populated(t.key) :> Populated(t.elem))]
    [] t.k = "struct" ->
         [i \in 1..Len(t.fields) |-> Populated(t.fields[i].type)]

Val(t, how) == IF how = "zero" THEN Zero(t) ELSE Populated(t)

\* the file system of every program: "7" holds 5, "8" is an empty file,
\* no other path exists
TheFiles == (<<"7">> :> <<"5">>) @@ (<<"8">> :> <<>>)

Prog(type, tgt, env, prefix, rind) ==
  [type |-> type, target |-> tgt, env |-> env, prefix |-> prefix,
   rind |-> rind, fs |-> TheFiles, funcMap |-> EmptyMap]

\* the program p with the caller's Options.FuncMap set to funcMap
WithFuncMap(p, funcMap) == [p EXCEPT !.funcMap = funcMap]

\* type Item struct {
\*   N string `env:"N"`; M int `env:"M"`; D string `env:"D" envDefault:"d"` }
ItemType ==
  TStruct("Item", <<Fld("N", TString, <<"N">>, <<>>, <<>>, FALSE, <<>>),
                    Fld("M", TInt, <<"M">>, <<>>, <<>>, FALSE, <<>>),
                    Fld("D", TString, <<"D">>, <<>>, <<>>, TRUE, <<"d">>)>>)

(***************************************************************************)
(* Slices of structs:                                                      *)
(*   type Cfg struct { Items []Item `envPrefix:"IT_"` }        (or "IT")   *)
(* bound with any subset of the keys IT_<i>_N (i <= MaxIdx), IT_0_M, ITX   *)
(* and Z, the slice nil or pre-populated with up to MaxPre items.          *)
(***************************************************************************)
ItemKey(i, k) == <<"I", "T", "_">> \o Itoa(i) \o <<"_", k>>

SliceKeys == {ItemKey(i, "N") : i \in 0..MaxIdx} \cup {ItemKey(0, "M")}
             \cup {<<"I", "T", "X">>, <<"Z">>}

SliceEnvs ==
  {[k \in K |-> IF k[Len(k)] = "M" THEN <<"7">> ELSE <<"a">> \o Itoa(Len(k))]
     : K \in SUBSET SliceKeys}

PreItems == {[i \in 1..n |-> Populated(ItemType)] : n \in 0..MaxPre}

SlicePrograms ==
  {Prog(TStruct("Cfg", <<Fld("Items", TSlice(ItemType), <<>>, <<>>, pfx,
                             FALSE, <<>>)>>),
        <<[nil |-> items = <<>>, elems |-> items]>>, e, <<>>, FALSE)
     : pfx \in {<<"I", "T", "_">>, <<"I", "T">>},
       items \in PreItems, e \in SliceEnvs}

(***************************************************************************)
(* One leaf under a nested prefix, with every combination of the value     *)
(* options:                                                                *)
(*   type Inner struct { X T `env:"<key>,<options>" envDefault:"<def>"` }  *)
(*   type Cfg struct { S Inner `envPrefix:"P_"` }                          *)
(***************************************************************************)
ValueOptions == {"required", "notEmpty", "expand", "file", "unset"}

\* the declared default: none, or one of these values
Defaults == {<<>>, <<"7">>, <<"$", "Z">>}

\* the values the environment may give the key P_X
LeafValues == {<<>>, <<"7">>, <<"8">>, <<"x">>}

LeafType(t, key, opts, hasDef, def) ==
  TStruct("Cfg",
    <<Fld("S", TStruct("Inner", <<Fld("X", t, key, TagOpts(opts), <<>>,
                                      hasDef, def)>>),
          <<>>, <<>>, <<"P", "_">>, FALSE, <<>>)>>)

LeafEnvs == {EmptyMap} \cup {(<<"P", "_", "X">> :> v) : v \in LeafValues}

LeafPrograms ==
  {Prog(LeafType(t, key, opts, d[1], d[2]), <<<<Val(t, tv)>>>>, e, <<>>, rind)
     : t \in {TString, TInt}, key \in {<<"X">>, <<>>},
       opts \in SUBSET ValueOptions,
       d \in {<<FALSE, <<>>>>} \cup {<<TRUE, v>> : v \in Defaults},
       tv \in {"zero", "populated"}, e \in LeafEnvs, rind \in BOOLEAN}

(***************************************************************************)
(* Sibling fields, two of them with the same own key A at different        *)
(* levels, the last one expanding a reference to A:                        *)
(*   type Inner struct { A string `env:"A,<oi>"` }                         *)
(*   type Cfg struct {                                                     *)
(*     A T      `env:"A,<oa>"`                                             *)
(*     S Inner  `envPrefix:"P_"`                  (declared after or       *)
(*                                                 before A)               *)
(*     B string `env:"B,<ob>" envDefault:"port-${A}"`   (or no default)    *)
(*   }                                                                     *)
(***************************************************************************)
PortRef == <<"p", "o", "r", "t", "-", "$", "{", "A", "}">>

Port(v) == <<"p", "o", "r", "t", "-">> \o v

FieldA(t, oa) == Fld("A", t, <<"A">>, TagOpts(oa), <<>>, FALSE, <<>>)

FieldS(oi) ==
  Fld("S", TStruct("Inner", <<Fld("A", TString, <<"A">>, TagOpts(oi), <<>>,
                                  FALSE, <<>>)>>),
      <<>>, <<>>, <<"P", "_">>, FALSE, <<>>)

FieldB(ob, hasDef) ==
  Fld("B", TString, <<"B">>, TagOpts(ob), <<>>, hasDef,
      IF hasDef THEN PortRef ELSE <<>>)

\* S is declared after A (sFirst = FALSE) or before it
SiblingType(t, oa, oi, ob, hasDef, sFirst) ==
  TStruct("Cfg",
    IF sFirst THEN <<FieldS(oi), FieldA(t, oa), FieldB(ob, hasDef)>>
    ELSE <<FieldA(t, oa), FieldS(oi), FieldB(ob, hasDef)>>)

SiblingEnvs ==
  {EnvOf(a \cup pa \cup b)
     : a \in {{}} \cup {{<<<<"A">>, v>>} : v \in {<<>>, <<"7">>, <<"x">>}},
       pa \in {{}, {<<<<"P", "_", "A">>, <<"8">>>>}},
       b \in {{}, {<<<<"B">>, PortRef>>}}}

SiblingPrograms ==
  {Prog(SiblingType(t, oa, oi, ob, hasDef, sFirst),
        Zero(SiblingType(t, oa, oi, ob, hasDef, sFirst)), e, <<>>, FALSE)
     : t \in {TString, TInt},
       oa \in {{}, {"required"}, {"file"}, {"notEmpty"}, {"bogus"},
               {"unset", "bogus"}},
       oi \in {{}, {"required"}, {"bogus"}},
       ob \in {{}, {"expand"}, {"expand", "required"}},
       hasDef \in BOOLEAN, sFirst \in BOOLEAN, e \in SiblingEnvs}

(***************************************************************************)
(* One container field, ignored or not, allocated or not:                  *)
(*   type Cfg struct { C <type> `env:"<key>,<options>" envPrefix:"P_"` }   *)
(* with <type> one of Item, struct{...} (unnamed), *Item, []Item.          *)
(***************************************************************************)
ContainerTypes ==
  {ItemType, TStruct("", ItemType.fields), TPtr(ItemType), TSlice(ItemType)}

ContainerEnvs ==
  {EnvOf(S) : S \in SUBSET {<<<<"P", "_", "N">>, <<"a">>>>,
                            <<<<"P", "_", "0", "_", "N">>, <<"b">>>>,
                            <<<<"C">>, <<"c">>>>}}

ContainerPrograms ==
  {Prog(TStruct("Cfg", <<Fld("C", t, key, TagOpts(opts), <<"P", "_">>,
                             FALSE, <<>>)>>),
        <<Val(t, tv)>>, e, <<>>, FALSE)
     : t \in ContainerTypes, key \in {<<>>, <<"-">>, <<"C">>},
       opts \in SUBSET {"init", "-", "required", "notEmpty"}
                 \cup {{"bogus"}, {"init", "bogus"}},
       tv \in {"zero", "populated"}, e \in ContainerEnvs}

(***************************************************************************)
(* A map leaf:  type Cfg struct { M map[string]int `env:"M"` }             *)
(* bound from a raw value of up to MaxPairs comma-separated pieces.        *)
(***************************************************************************)
MaxPairs == 2

\* the pairs key:value the pieces are made of, and pieces that are no pair
PairKeys == {<<"a">>, <<"b">>}

PairValues == {<<"1">>, <<"2">>, <<"x">>}

PairOf(k, v) == k \o <<":">> \o v

Pieces == {PairOf(k, v) : k \in PairKeys, v \in PairValues}
          \cup {<<>>, <<"a">>, <<"a", ":", "1", ":", "2">>}

RECURSIVE Join(_, _)
\* strings.Join(parts, sep)
Join(parts, sep) ==
  IF parts = <<>> THEN <<>>
  ELSE IF Len(parts) = 1 THEN parts[1]
  ELSE parts[1] \o <<sep>> \o Join(Tail(parts), sep)

RawMaps ==
  UNION {{Join(ps, ",") : ps \in [1..n -> Pieces]} : n \in 1..MaxPairs}

MapType == TMap(TString, TInt)

MapPrograms ==
  {Prog(TStruct("Cfg", <<Fld("M", MapType, <<"M">>, <<>>, <<>>, FALSE,
                             <<>>)>>),
        <<Val(MapType, tv)>>, (<<"M">> :> r), <<>>, FALSE)
     : tv \in {"zero", "populated"}, r \in RawMaps}


(***************************************************************************)
(* One field of a built-in boolean or integer kind, bound from the string  *)
(* that formats a value of the kind:                                       *)
(*   type Cfg struct { V <kind> `env:"V"` }                                *)
(* The values are the least and the greatest of the kind and the ones      *)
(* around zero; int and uint are as wide as the build's machine word.      *)
(***************************************************************************)
\* strconv.IntSize of the builds Go supports
IntSizes == {32, 64}

\* the width of a kind's values on a build with the given word size
KindBits(k, intSize) == IF k \in {"int", "uint"} THEN intSize ELSE ParserBits(k)

\* strconv.FormatInt / FormatUint of a number
FormatNumber(n) == (IF n.neg THEN <<"-">> ELSE <<>>) \o n.mag

\* strconv.FormatBool
FormatBool(b) == IF b THEN <<"t", "r", "u", "e">> ELSE <<"f", "a", "l", "s", "e">>

\* values representable in kind k, formatted
Formatted(k, intSize) ==
  IF k = "bool" THEN {FormatBool(b) : b \in BOOLEAN}
  ELSE IF k \in UnsignedKinds
    THEN {FormatNumber(Number(FALSE, m))
            : m \in {<<"0">>, <<"1">>, Pow2Minus1(KindBits(k, intSize))}}
  ELSE {FormatNumber(n)
          : n \in {Number(TRUE, Pow2(KindBits(k, intSize) - 1)),
                   Number(TRUE, <<"1">>), Number(FALSE, <<"0">>),
                   Number(FALSE, <<"1">>),
                   Number(FALSE, Pow2Minus1(KindBits(k, intSize) - 1))}}

ScalarKinds == {"bool", "int"} \cup NumberKinds

ScalarType(k) ==
  TStruct("Cfg", <<Fld("V", TKind(k), <<"V">>, <<>>, <<>>, FALSE, <<>>)>>)

ScalarPrograms ==
  {Prog(ScalarType(x[1]), <<Val(TKind(x[1]), tv)>>, (<<"V">> :> x[2]), <<>>,
        FALSE)
     : x \in UNION {{<<k, f>> : f \in Formatted(k, size)}
                      : <<k, size>> \in ScalarKinds \X IntSizes},
       tv \in {"zero", "populated"}}

(***************************************************************************)
(* One field of a defined type, with and without an entry in the           *)
(* concrete-type table:                                                    *)
(*   type Level string   (with the method UnmarshalText on *Level)         *)
(*   type Name string                                                      *)
(*   type Cfg struct { V T `env:"V"` }                                     *)
(* for T one of Level, Name, time.Duration, a pointer to or a slice of     *)
(* one, or a map with time.Duration keys or values; the caller's FuncMap   *)
(* nil or holding a parser for Level or for Name.                          *)
(***************************************************************************)
TLevel == TNamed("Level", "string", TRUE)

TName == TNamed("Name", "string", FALSE)

RegistryTypes ==
  UNION {{t, TPtr(t), TSlice(t), TSlice(TPtr(t))}
           : t \in {TLevel, TName, TDuration}}
  \cup {TMap(TString, TDuration), TMap(TDuration, TString)}

FuncMaps == {EmptyMap, (TLevel :> "parseNamed"), (TName :> "parseNamed")}

RegistryValues ==
  {<<"5">>, <<"5", "s">>, <<"a">>, <<"a", ",", "b">>, <<"5", "s", ",", "5">>,
   <<"a", ":", "5", "s">>, <<"5", "s", ":", "a">>, <<"5", ":", "5">>}

RegistryPrograms ==
  {WithFuncMap(
     Prog(TStruct("Cfg", <<Fld("V", t, <<"V">>, <<>>, <<>>, FALSE, <<>>)>>),
          <<Val(t, tv)>>, (<<"V">> :> v), <<>>, FALSE), fm)
     : t \in RegistryTypes, fm \in FuncMaps, v \in RegistryValues,
       tv \in {"zero", "populated"}}

(***************************************************************************)
(* Two fields that read the same key:                                      *)
(*   type Cfg struct { A string `env:"K,<oa>"`; B string `env:"K,<ob>"` }  *)
(***************************************************************************)
TwinOptions == {"unset", "required", "notEmpty"}

TwinType(oa, ob) ==
  TStruct("Cfg", <<Fld("A", TString, <<"K">>, TagOpts(oa), <<>>, FALSE, <<>>),
                   Fld("B", TString, <<"K">>, TagOpts(ob), <<>>, FALSE, <<>>)>>)

TwinEnvs == {EmptyMap} \cup {(<<"K">> :> v) : v \in {<<>>, <<"7">>}}

TwinPrograms ==
  {Prog(TwinType(oa, ob), Zero(TwinType(oa, ob)), e, <<>>, FALSE)
     : oa \in SUBSET TwinOptions, ob \in SUBSET TwinOptions, e \in TwinEnvs}

(***************************************************************************)
(* A field that expands a reference to a field declared after or before    *)
(* it, whose value may come from its default only:                         *)
(*   type Cfg struct {                                                     *)
(*     B string `env:"B,expand" envDefault:"${A}"`                         *)
(*     A string `env:"A" envDefault:"7"`        (or declared before B)     *)
(*   }                                                                     *)
(***************************************************************************)
RefA == <<"$", "{", "A", "}">>

LateType(aFirst, hasDef) ==
  LET a == Fld("A", TString, <<"A">>, <<>>, <<>>, hasDef,
               IF hasDef THEN <<"7">> ELSE <<>>)
      b == Fld("B", TString, <<"B">>, <<"expand">>, <<>>, TRUE, RefA)
  IN TStruct("Cfg", IF aFirst THEN <<a, b>> ELSE <<b, a>>)

LateEnvs == {EmptyMap} \cup {(<<"A">> :> v) : v \in {<<>>, <<"8">>}}

LatePrograms ==
  {Prog(LateType(aFirst, hasDef), Zero(LateType(aFirst, hasDef)), e, <<>>,
        FALSE)
     : aFirst \in BOOLEAN, hasDef \in BOOLEAN, e \in LateEnvs}

(***************************************************************************)
(* A slice of pointers to structs:                                         *)
(*   type Cfg struct { Items []*Item `envPrefix:"IT_"` }                   *)
(* nil or holding one non-nil pointer, bound with any subset of the keys   *)
(* IT_0_N, IT_1_N, IT_0_M, ITX and Z.                                      *)
(***************************************************************************)
PtrSliceType ==
  TStruct("Cfg", <<Fld("Items", TSlice(TPtr(ItemType)), <<>>, <<>>,
                       <<"I", "T", "_">>, FALSE, <<>>)>>)

PtrSlicePrograms ==
  {Prog(PtrSliceType, <<Val(TSlice(TPtr(ItemType)), tv)>>,
        [k \in K |-> IF k[Len(k)] = "M" THEN <<"7">> ELSE <<"a">>], <<>>,
        FALSE)
     : tv \in {"zero", "populated"},
       K \in SUBSET {ItemKey(0, "N"), ItemKey(1, "N"), ItemKey(0, "M"),
                     <<"I", "T", "X">>, <<"Z">>}}

(***************************************************************************)
(* A pointer to a struct, tagged init or not, its pointee type with or     *)
(* without an entry in the caller's concrete-type table:                   *)
(*   type Cfg struct { C *Item `env:"<key>,<options>" envPrefix:"P_"` }    *)
(***************************************************************************)
InitType(key, opts) ==
  TStruct("Cfg", <<Fld("C", TPtr(ItemType), key, TagOpts(opts), <<"P", "_">>,
                       FALSE, <<>>)>>)

InitPrograms ==
  {WithFuncMap(
     Prog(InitType(key, opts), <<Val(TPtr(ItemType), tv)>>, a @@ c, <<>>,
          FALSE), fm)
     : key \in {<<>>, <<"C">>}, opts \in SUBSET {"init", "required", "notEmpty"},
       tv \in {"zero", "populated"},
       fm \in {EmptyMap, (ItemType :> "parseItem")},
       a \in {EmptyMap, (<<"P", "_", "N">> :> <<"a">>)},
       c \in {EmptyMap, (<<"C">> :> <<>>), (<<"C">> :> <<"c">>)}}

(***************************************************************************)
(* Leaves at every depth, under a non-empty Options.Prefix:                *)
(*   type Leaf  struct { X string `env:"X"` }                              *)
(*   type Elem  struct { N string `env:"N"`; L Leaf `envPrefix:"L_"` }     *)
(*   type Inner struct { X string `env:"X"`                                *)
(*                       Items []Elem `envPrefix:"IT"` }       (or "IT_")  *)
(*   type Cfg   struct { S Inner `envPrefix:"P_"`                          *)
(*                       Q *Leaf `env:",init" envPrefix:"Q_"` }            *)
(* bound with Options.Prefix "" or "O_"; every key holds its own name.     *)
(***************************************************************************)
PathLeaf ==
  TStruct("Leaf", <<Fld("X", TString, <<"X">>, <<>>, <<>>, FALSE, <<>>)>>)

PathElem ==
  TStruct("Elem", <<Fld("N", TString, <<"N">>, <<>>, <<>>, FALSE, <<>>),
                    Fld("L", PathLeaf, <<>>, <<>>, <<"L", "_">>, FALSE, <<>>)>>)

PathType(slicePrefix) ==
  TStruct("Cfg",
    <<Fld("S", TStruct("Inner",
                 <<Fld("X", TString, <<"X">>, <<>>, <<>>, FALSE, <<>>),
                   Fld("Items", TSlice(PathElem), <<>>, <<>>, slicePrefix,
                       FALSE, <<>>)>>),
          <<>>, <<>>, <<"P", "_">>, FALSE, <<>>),
      Fld("Q", TPtr(PathLeaf), <<>>, <<"init">>, <<"Q", "_">>, FALSE, <<>>)>>)

PathKeys ==
  {<<"P", "_", "X">>, <<"P", "_", "I", "T", "_", "0", "_", "N">>,
   <<"P", "_", "I", "T", "_", "0", "_", "L", "_", "X">>, <<"Q", "_", "X">>,
   <<"O", "_", "P", "_", "X">>,
   <<"O", "_", "P", "_", "I", "T", "_", "0", "_", "L", "_", "X">>,
   <<"O", "_", "Q", "_", "X">>}

PathPrograms ==
  {Prog(PathType(sp), Val(PathType(sp), tv), [k \in K |-> k], prefix, FALSE)
     : sp \in {<<"I", "T">>, <<"I", "T", "_">>},
       tv \in {"zero", "populated"}, prefix \in {<<>>, <<"O", "_">>},
       K \in SUBSET PathKeys}

(***************************************************************************)
(* One leaf of every shape, bound from values that are empty, that parse   *)
(* and that do not:                                                        *)
(*   type Cfg struct { V T `env:"V,<file>" envDefault:"<def>"` }           *)
(* for T a scalar, a pointer to a scalar, a list or a map, of an element   *)
(* type with a built-in parser (int), with UnmarshalText (Level) or with   *)
(* no parser (complex128).                                                 *)
(***************************************************************************)
ShapeTypes ==
  {TInt, TLevel, TComplex, TPtr(TInt), TPtr(TLevel), TPtr(TComplex),
   TSlice(TInt), TSlice(TPtr(TInt)), TSlice(TLevel), TSlice(TComplex),
   TMap(TString, TInt), TMap(TString, TComplex)}

ShapeValues ==
  {<<>>, <<"7">>, <<"8">>, <<"x">>, <<"1", ",", "x">>, <<"a", ",">>,
   <<"a", ":", "1">>, <<"a", ":", "1", ",", "b", ":", "x">>}

ShapeType(t, opts, hasDef) ==
  TStruct("Cfg", <<Fld("V", t, <<"V">>, TagOpts(opts), <<>>, hasDef, <<>>)>>)

ShapePrograms ==
  {Prog(ShapeType(t, opts, hasDef), <<Val(t, tv)>>, e, <<>>, FALSE)
     : t \in ShapeTypes, opts \in {{}, {"file"}}, hasDef \in BOOLEAN,
       tv \in {"zero", "populated"},
       e \in {EmptyMap} \cup {(<<"V">> :> v) : v \in ShapeValues}}

(***************************************************************************)
(* State                                                                   *)
(***************************************************************************)
VARIABLES
  rootType,  \* the type of the target struct (fixed by the program)
  target,    \* the target struct the caller passes by pointer
  options,   \* the Options the caller passes to the ...WithOptions calls
  live,      \* the live process environment
  files,     \* the file system
  raw,       \* rawEnvVars of the last bind
  trace,     \* the events of the last bind
  pre,       \* the target as it was when the last bind was called
  ret,       \* the last bind: the call, the options it ran with, and
             \* what it returned
  calls,     \* the number of binds so far
  \* the metrics factory (package telemetry/metrics)
  config,    \* mf.config
  counters,  \* mf.counters: name -> counter object
  heap,      \* the defaultCounter objects allocated so far
  held       \* the counters NewCounter has returned: <<name, object>>

bindVars ==
  <<rootType, target, options, live, files, raw, trace, pre, ret, calls>>

metricsVars == <<config, counters, heap, held>>

vars == <<bindVars, metricsVars>>

\* no metrics factory in use
NoFactory ==
  /\ config = [ServiceName |-> <<>>]
  /\ counters = EmptyMap
  /\ heap = <<>>
  /\ held = <<>>

\* The state before the first bind of program p.
Start(p) ==
  /\ rootType = p.type
  /\ target = p.target
  /\ options = [Environment |-> p.env, Prefix |-> p.prefix,
                RequiredIfNoDef |-> p.rind, OnSet |-> TRUE,
                FuncMap |-> p.funcMap]
  /\ live = p.env
  /\ files = p.fs
  /\ raw = EmptyMap
  /\ trace = <<>>
  /\ pre = p.target
  /\ ret = [op |-> "none", err |-> <<>>, params |-> <<>>, panic |-> FALSE,
            opts |-> [Environment |-> p.env, Prefix |-> p.prefix,
                      RequiredIfNoDef |-> p.rind, OnSet |-> TRUE,
                      FuncMap |-> p.funcMap]]
  /\ calls = 0

Init ==
  /\ NoFactory
  /\ \/ \E p \in SlicePrograms : Start(p)
     \/ \E p \in LeafPrograms : Start(p)
     \/ \E p \in SiblingPrograms : Start(p)
     \/ \E p \in ContainerPrograms : Start(p)
     \/ \E p \in MapPrograms : Start(p)
     \/ \E p \in ScalarPrograms : Start(p)
     \/ \E p \in RegistryPrograms : Start(p)
     \/ \E p \in TwinPrograms : Start(p)
     \/ \E p \in LatePrograms : Start(p)
     \/ \E p \in PtrSlicePrograms : Start(p)
     \/ \E p \in InitPrograms : Start(p)
     \/ \E p \in PathPrograms : Start(p)
     \/ \E p \in ShapePrograms : Start(p)

\* defaultOptions(): the snapshot is taken from the live environment
defaultOptions ==
  [Environment |-> live, Prefix |-> <<>>, RequiredIfNoDef |-> FALSE,
   OnSet |-> FALSE, FuncMap |-> defaultTypeParsers]

\* customOptions(opt): the default concrete-type entries are added to the
\* caller's table, without replacing an entry of the caller's.  A nil
\* FuncMap (the empty table here: no program passes an empty non-nil one)
\* is replaced by a fresh table, a non-nil one is written in place.
customOptions(opt) == [opt EXCEPT !.FuncMap = @ @@ defaultTypeParsers]

\* the caller's Options after customOptions has run on its copy
AfterCustomOptions(opt) ==
  IF opt.FuncMap = EmptyMap THEN opt ELSE customOptions(opt)

\* parseInternal on the target with a fresh raw-value table
parseInternal(mode, opts) ==
  doParse(target, rootType, mode, opts,
          [raw |-> EmptyMap, live |-> live, env |-> opts.Environment,
           fs |-> files, result |-> <<>>,
           trace |-> <<>>, panic |-> FALSE], <<>>)

\* The state a bind leaves behind when parseInternal returns r.
Returns(op, mode, opts, r, callers) ==
  /\ calls' = calls + 1
  /\ pre' = target
  /\ target' = r.v
  /\ live' = r.ctx.live
  /\ raw' = r.ctx.raw
  /\ trace' = r.ctx.trace
  /\ ret' = [op |-> op, err |-> r.err, panic |-> r.ctx.panic,
             opts |-> [opts EXCEPT !.Environment = r.ctx.env],
             params |-> IF mode = "collect" /\ r.err = <<>>
                          THEN r.ctx.result ELSE <<>>]
  \* the caller's Options share the map Environment with the bind's copy;
  \* Parse binds its own snapshot
  /\ options' = IF op = "Parse" THEN callers
                ELSE [callers EXCEPT !.Environment = r.ctx.env]
  /\ UNCHANGED <<rootType, files>>
  /\ UNCHANGED metricsVars

Parse ==
  /\ calls < MaxCalls
  /\ Returns("Parse", "setField", defaultOptions,
             parseInternal("setField", defaultOptions), options)

ParseWithOptions ==
  /\ calls < MaxCalls
  /\ Returns("ParseWithOptions", "setField", customOptions(options),
             parseInternal("setField", customOptions(options)),
             AfterCustomOptions(options))

GetFieldParamsWithOptions ==
  /\ calls < MaxCalls
  /\ Returns("GetFieldParamsWithOptions", "collect", customOptions(options),
             parseInternal("collect", customOptions(options)),
             AfterCustomOptions(options))

Next == Parse \/ ParseWithOptions \/ GetFieldParamsWithOptions

Spec == Init /\ [][Next]_vars

(***************************************************************************)
(* The metrics factory: defaultMetricsFactory.NewCounter and               *)
(* defaultCounter.Load                                                     *)
(***************************************************************************)
MaxNewCounter == 3

MaxLoad == 1

\* strings.ReplaceAll(s, old, new) for one-character old and new
ReplaceAll(s, old, new) == [i \in 1..Len(s) |-> IF s[i] = old THEN new ELSE s[i]]

\* strings.TrimSpace
RECURSIVE TrimLeft(_)
TrimLeft(s) == IF s # <<>> /\ Head(s) = " " THEN TrimLeft(Tail(s)) ELSE s

RECURSIVE TrimRight(_)
TrimRight(s) ==
  IF s # <<>> /\ s[Len(s)] = " " THEN TrimRight(SubSeq(s, 1, Len(s) - 1))
  ELSE s

TrimSpace(s) == TrimRight(TrimLeft(s))

\* the name NewCounter registers the instrument and the cache entry under
\* (counter.go 78-80)
InstrumentName(serviceName, name) ==
  IF serviceName # <<"_">>
    THEN TrimSpace(ReplaceAll(serviceName \o <<"_">> \o name, "-", "_"))
    ELSE name

\* Metrics.ServiceName: the zero value Init leaves in the factory, the
\* declared default "_", and a service name
ServiceNames == {<<>>, <<"_">>, <<"s", "-", "t">>}

CounterNames == {<<"a">>, <<"b", "-", "c">>, <<"_", "a">>}

\* the MetricOption lists a caller passes: none, or a description, a
\* unit, one static label and one label name
MetricOptions ==
  {[desc |-> <<>>, unit |-> <<>>, staticLabels |-> EmptyMap,
    labelNames |-> <<>>],
   [desc |-> <<"d">>, unit |-> <<"u">>,
    staticLabels |-> (<<"k">> :> <<"v">>), labelNames |-> <<<<"l">>>>]}

MeasurementOptions == {"x", "y"}

\* the zero attribute.KeyValue
ZeroKeyValue == [key |-> <<>>, value |-> <<>>]

\* counter.go 91-97 and 116-118: make with a length, then append
StaticLabels(opt) ==
  IF DOMAIN opt.staticLabels = {} THEN <<>>
  ELSE LET k == CHOOSE x \in DOMAIN opt.staticLabels : TRUE
       IN <<ZeroKeyValue, [key |-> k, value |-> opt.staticLabels[k]]>>

\* the defaultCounter NewCounter builds (counter.go 82-118)
NewDefaultCounter(instrument, opt) ==
  [counter |-> [name |-> instrument, desc |-> opt.desc, unit |-> opt.unit],
   staticLabels |-> StaticLabels(opt),
   opts |-> <<>>,
   labelNames |-> {opt.labelNames[i] : i \in 1..Len(opt.labelNames)}]

\* a factory with an empty cache
MetricsInit ==
  /\ Start(CHOOSE p \in TwinPrograms : TRUE)
  /\ config \in {[ServiceName |-> n] : n \in ServiceNames}
  /\ counters = EmptyMap
  /\ heap = <<>>
  /\ held = <<>>

\* counter.go 69: c, ok := mf.counters[name]
Cached(name) == name \in DOMAIN counters

\* NewCounter(name, opts...) that finds the name in the cache
NewCounterCached ==
  \E name \in CounterNames :
  /\ Len(held) < MaxNewCounter
  /\ Cached(name)
  /\ held' = Append(held, <<name, counters[name]>>)
  /\ UNCHANGED <<config, counters, heap>>
  /\ UNCHANGED bindVars

\* NewCounter(name, opts...) that creates the counter; meter.Float64Counter
\* succeeds
NewCounterCreated ==
  \E name \in CounterNames : \E opt \in MetricOptions :
  /\ Len(held) < MaxNewCounter
  /\ ~Cached(name)
  /\ heap' = Append(heap, NewDefaultCounter(
                            InstrumentName(config.ServiceName, name), opt))
  /\ counters' = Put(counters, InstrumentName(config.ServiceName, name),
                     Len(heap) + 1)
  /\ held' = Append(held, <<name, Len(heap) + 1>>)
  /\ UNCHANGED config
  /\ UNCHANGED bindVars

\* NewCounter(name, opts...) when meter.Float64Counter returns an error:
\* nothing is cached and no counter is returned
NewCounterFailed ==
  \E name \in CounterNames :
  /\ Len(held) < MaxNewCounter
  /\ ~Cached(name)
  /\ held' = Append(held, <<name, 0>>)
  /\ UNCHANGED <<config, counters, heap>>
  /\ UNCHANGED bindVars

\* c.Load(o) by a holder of the counter c
Load ==
  \E c \in 1..Len(heap) : \E o \in MeasurementOptions :
  /\ c \in {held[i][2] : i \in 1..Len(held)} \ {0}
  /\ Len(heap[c].opts) < MaxLoad
  /\ heap' = [heap EXCEPT ![c].opts = Append(@, o)]
  /\ UNCHANGED <<config, counters, held>>
  /\ UNCHANGED bindVars

MetricsNext == NewCounterCached \/ NewCounterCreated \/ NewCounterFailed \/ Load

MetricsSpec == MetricsInit /\ [][MetricsNext]_vars


(***************************************************************************)
(* Properties                                                              *)
(***************************************************************************)
\* a bind that assigns (Parse or ParseWithOptions) was called, and is over
Called == ret.op \in {"Parse", "ParseWithOptions"}

\* a bind that assigns (Parse or ParseWithOptions) has returned
Bound == Called /\ ~ret.panic

\* the introspection call has returned
Introspected == ret.op = "GetFieldParamsWithOptions" /\ ~ret.panic

HasOpt(f, o) == \E i \in 1..Len(f.tagopts) : f.tagopts[i] = o

Vocabulary == {"", "file", "required", "unset", "notEmpty", "expand", "init",
               "-"}

WellTagged(f) == \A i \in 1..Len(f.tagopts) : f.tagopts[i] \in Vocabulary

IsLeafType(t) == t.k \in {"string", "int", "bool", "map"} \cup NumberKinds

\* a struct-typed field that carries no key and no option: the walk
\* descends into it with the prefix extended by its envPrefix tag
IsPlainStruct(f) ==
  f.type.k = "struct" /\ f.type.name # "" /\ f.key = <<>> /\ f.tagopts = <<>>

\* The leaf fields of struct type t reached through plain struct fields,
\* each with its position in the target and its fully-qualified key as the
\* declaration gives it: the prefixes on the way down, then the own key.
RECURSIVE LeafFields(_, _, _)
LeafFields(t, prefix, path) ==
  UNION {LET f == t.fields[i]
         IN IF IsLeafType(f.type)
              THEN {[path |-> Append(path, i), fld |-> f,
                     key |-> prefix \o f.key]}
            ELSE IF IsPlainStruct(f)
              THEN LeafFields(f.type, prefix \o f.prefix, Append(path, i))
            ELSE {}
           : i \in 1..Len(t.fields)}

Leaves == LeafFields(rootType, ret.opts.Prefix, <<>>)

\* the value at a position of the target
RECURSIVE At(_, _)
At(v, path) == IF path = <<>> THEN v ELSE At(v[Head(path)], Tail(path))

Snapshot == ret.opts.Environment

\* the error the bind returned contains error e
Returned(e) == \E i \in 1..Len(ret.err) : ret.err[i] = e

\* C1: when a well-tagged leaf field is tagged required, has a non-empty
\* own key and no default, and its fully-qualified key is absent from the
\* snapshot, Parse / ParseWithOptions returns an error that carries
\* ErrVarIsNotSet for that key.
C1_RequiredMissingIsReturned ==
  Bound =>
    \A l \in Leaves :
      (/\ HasOpt(l.fld, "required") /\ WellTagged(l.fld)
       /\ l.fld.key # <<>> /\ ~l.fld.hasDef
       /\ l.key \notin DOMAIN Snapshot)
      => Returned(Err("ErrVarIsNotSet", l.key))

\* the events of the trace that record a field's own failure (not the
\* joined failures of the fields beneath it)
Failed == {i \in 1..Len(trace) : /\ trace[i].e = "ret"
                                 /\ trace[i].err.kind \notin {"nil", "join"}}

\* C2: the error Parse returns is the join of the errors of all the fields
\* that failed during the walk: nil only if none failed, and holding the
\* error of every failed field otherwise.
C2_AllFieldErrorsAreJoined ==
  Bound =>
    /\ (ret.err = <<>>) <=> (Failed = {})
    /\ \A i \in Failed : Returned(trace[i].err)

Ignored(f) == f.key = <<"-">> \/ HasOpt(f, "-")

IsScalar(t) == t.k \in {"string", "int", "bool"} \cup NumberKinds

\* the key is absent from the snapshot, or present with the empty string
AbsentOrEmpty(key) == key \notin DOMAIN Snapshot \/ Snapshot[key] = <<>>

\* the leaf fields a default applies to: not ignored, with a declared
\* default, their key absent or empty
Defaulted ==
  {l \in Leaves : /\ IsScalar(l.fld.type) /\ ~Ignored(l.fld)
                   /\ WellTagged(l.fld) /\ l.fld.hasDef
                   /\ AbsentOrEmpty(l.key)}

C4_IntrospectionLeavesTargetUnchanged == Introspected => target = pre

\* path p lies at or beneath path q
Beneath(p, q) == Len(q) <= Len(p) /\ SubSeq(p, 1, Len(q)) = q

\* the events of the walk at or beneath the i-th field of the target,
\* other than the return of doParseField for it
Touched(i) ==
  {j \in 1..Len(trace) : /\ Beneath(trace[j].path, <<i>>)
                          /\ trace[j].e # "ret"}

\* C5: a field whose own key is "-" is ignored whatever its type, its
\* value and its other options: the leaf action is not invoked for it,
\* nothing at or beneath it is resolved, and it keeps its value.
C5_DashKeyIsIgnored ==
  Bound =>
    \A i \in 1..Len(rootType.fields) :
      rootType.fields[i].key = <<"-">> =>
        Touched(i) = {} /\ target[i] = pre[i]

IsStructSlice(t) == t.k = "slice" /\ t.elem.k = "struct"

\* the positions of the target's slice-of-struct fields
StructSlices ==
  {i \in 1..Len(rootType.fields) : IsStructSlice(rootType.fields[i].type)}

\* the Slice Assembler ran for the i-th field of the target: the field is
\* not ignored, its tag is well formed, and its own leaf processing
\* returned no error
Assembled(i) ==
  /\ ~Ignored(rootType.fields[i]) /\ WellTagged(rootType.fields[i])
  /\ \E j \in 1..Len(trace) :
       trace[j].e = "ret" /\ trace[j].path = <<i>> /\ trace[j].err = NoErr

\* the prefix the index-qualified keys of a slice field carry: the
\* accumulated prefix, with an underscore when it is non-empty and has none
IndexedPrefix(f) ==
  LET p == ret.opts.Prefix \o f.prefix
  IN IF p # <<>> /\ p[Len(p)] # "_" THEN p \o <<"_">> ELSE p

SomeKeyStartsWith(p) == \E k \in DOMAIN Snapshot : HasPrefix(k, p)

\* the smallest n such that no key of the snapshot starts with <p><n>_
FirstGap(p) ==
  CHOOSE n \in 0..(MaxIdx + 1) :
    /\ ~SomeKeyStartsWith(p \o Itoa(n) \o <<"_">>)
    /\ \A j \in 0..(n - 1) : SomeKeyStartsWith(p \o Itoa(j) \o <<"_">>)

\* what a scalar field with declaration f holds when bound, from its zero
\* value, from the key k
BoundFrom(f, k) ==
  IF k \in DOMAIN Snapshot /\ Snapshot[k] # <<>>
    THEN BuiltInParse(f.type, Snapshot[k]).v
  ELSE IF f.hasDef /\ f.def # <<>> THEN BuiltInParse(f.type, f.def).v
  ELSE Zero(f.type)

\* C6: a nil slice-of-struct field the Slice Assembler runs for ends with
\* length n, the smallest n such that no key starts with <prefix><n>_, and
\* for each i < n element i is bound from the keys <prefix><i>_<own key>.
C6_SliceDiscovery ==
  Bound =>
    \A i \in StructSlices :
      (Assembled(i) /\ pre[i].nil) =>
        LET f == rootType.fields[i]
            p == IndexedPrefix(f)
            n == FirstGap(p)
        IN /\ Len(target[i].elems) = n
           /\ \A j \in 0..(n - 1) :
                \A x \in 1..Len(f.type.elem.fields) :
                  LET g == f.type.elem.fields[x]
                  IN target[i].elems[j + 1][x]
                       = BoundFrom(g, p \o Itoa(j) \o <<"_">> \o g.key)

\* Keys for the indices 0 and 2 but none for 1: one element, bound from
\* the keys of index 0.
C6_Witness ==
  /\ Bound
  /\ \E i \in StructSlices :
       /\ Assembled(i) /\ pre[i].nil
       /\ ItemKey(0, "N") \in DOMAIN Snapshot
       /\ ItemKey(1, "N") \notin DOMAIN Snapshot
       /\ ItemKey(2, "N") \in DOMAIN Snapshot
       /\ Len(target[i].elems) = 1
       /\ target[i].elems[1][1] = Snapshot[ItemKey(0, "N")]

\* the events of the walk strictly beneath the i-th field of the target
Below(i) ==
  {j \in 1..Len(trace) : /\ Beneath(trace[j].path, <<i>>)
                          /\ Len(trace[j].path) > 1}

\* C7: when no key of the snapshot starts with the accumulated prefix of a
\* slice-of-struct field, the field is left as it was (nil stays nil, a
\* pre-populated slice keeps its length and elements) and its elements are
\* not walked.
C7_NoMatchingKeyLeavesSlice ==
  (Bound \/ Introspected) =>
    \A i \in StructSlices :
      ~SomeKeyStartsWith(ret.opts.Prefix \o rootType.fields[i].prefix) =>
        target[i] = pre[i] /\ Below(i) = {}

\* A pre-populated slice bound from a non-empty environment none of whose
\* keys carries the prefix.
C7_Witness ==
  /\ Bound
  /\ \E i \in StructSlices :
       /\ ~SomeKeyStartsWith(ret.opts.Prefix \o rootType.fields[i].prefix)
       /\ Assembled(i)
       /\ Snapshot # EmptyMap
       /\ ~pre[i].nil /\ Len(pre[i].elems) > 0
       /\ target[i] = pre[i]


(***************************************************************************)
(* Map leaves                                                              *)
(***************************************************************************)
\* the integers the values "1" and "2" denote
IntOf(v) == IF v = <<"1">> THEN 1 ELSE 2

\* the raw value k1:v1,...,kn:vn of the pairs kvs
RawOfPairs(kvs) ==
  Join([j \in 1..Len(kvs) |-> PairOf(kvs[j][1], kvs[j][2])], ",")

\* the mapping the pairs kvs denote: for a key that occurs more than once
\* the value of its last occurrence
LastWins(kvs) ==
  [k \in {kvs[j][1] : j \in 1..Len(kvs)} |->
     IntOf(kvs[CHOOSE j \in 1..Len(kvs) :
                 /\ kvs[j][1] = k
                 /\ \A h \in 1..Len(kvs) : kvs[h][1] = k => h <= j][2])]

MapLeaves ==
  {l \in Leaves : /\ l.fld.type = MapType /\ ~Ignored(l.fld)
                   /\ WellTagged(l.fld) /\ ~HasOpt(l.fld, "file")}

\* C8: for a string-to-int map field whose raw value is k1:v1,...,kn:vn
\* with every ki and vi parsing, the field holds after Parse exactly the
\* mapping of each parsed key to its parsed value, the last occurrence of a
\* repeated key winning, whatever the map held before.
C8_MapParsing ==
  Bound =>
    \A l \in MapLeaves : \A n \in 1..MaxPairs :
      \A kvs \in [1..n -> PairKeys \X {<<"1">>, <<"2">>}] :
        (l.key \in DOMAIN Snapshot /\ Snapshot[l.key] = RawOfPairs(kvs))
        => At(target, l.path) = [nil |-> FALSE, m |-> LastWins(kvs)]

\* "a:1,a:2" parsed over a populated map leaves {a: 2}.
C8_Witness ==
  /\ Bound
  /\ \E l \in MapLeaves :
       /\ l.key \in DOMAIN Snapshot
       /\ Snapshot[l.key] = <<"a", ":", "1", ",", "a", ":", "2">>
       /\ At(pre, l.path) = Populated(MapType)
       /\ At(target, l.path) = [nil |-> FALSE, m |-> (<<"a">> :> 2)]

(***************************************************************************)
(* Expansion                                                               *)
(***************************************************************************)
\* the positions in the trace of the events of kind e for the field at path
Events(e, path) ==
  {j \in 1..Len(trace) : trace[j].e = e /\ trace[j].path = path}

\* the raw value of a leaf: the snapshot's value of its key, or the
\* declared default when the key is absent or empty
RawValue(l) ==
  IF ~AbsentOrEmpty(l.key) THEN Snapshot[l.key]
  ELSE IF l.fld.hasDef THEN l.fld.def
  ELSE <<>>

\* the string fields tagged expand whose raw value is "port-${A}"
Expanding ==
  {l \in Leaves : /\ l.fld.type = TString /\ HasOpt(l.fld, "expand")
                   /\ WellTagged(l.fld) /\ ~Ignored(l.fld)
                   /\ RawValue(l) = PortRef}

\* C9 as stated: when a field with own key A was resolved to v before a
\* field B of Expanding in the same bind, B resolves to "port-" followed by
\* v and holds that string.
C9_ExpandUsesResolvedValue ==
  Bound =>
    \A b \in Expanding : \A a \in Leaves :
      \A ja \in Events("get", a.path) : \A jb \in Events("get", b.path) :
        (a.fld.key = <<"A">> /\ ja < jb /\ trace[ja].err = NoErr)
        => /\ trace[jb].err = NoErr
           /\ trace[jb].val = Port(trace[ja].val)
           /\ At(target, b.path) = Port(trace[ja].val)

\* the positions before j where a value was recorded under own key k
Writes(k, j) ==
  {i \in 1..(j - 1) : trace[i].e = "raw" /\ trace[i].key = k}

Last(S) == CHOOSE i \in S : \A h \in S : h <= i

\* C9 amended: when the value most recently recorded under own key A
\* before a field B of Expanding (not tagged file) is resolved is a
\* non-empty v (the value before any file is loaded), B resolves to
\* "port-" followed by v and holds that string.
C9_ExpandUsesRecordedValue ==
  Bound =>
    \A b \in Expanding : \A jb \in Events("get", b.path) :
      LET W == Writes(<<"A">>, jb)
      IN (W # {} /\ trace[Last(W)].val # <<>> /\ ~HasOpt(b.fld, "file"))
         => /\ trace[jb].err = NoErr
            /\ trace[jb].val = Port(trace[Last(W)].val)
            /\ At(target, b.path) = Port(trace[Last(W)].val)

\* A recorded as "7", then B bound to "port-7".
C9_Witness ==
  /\ Bound
  /\ \E b \in Expanding : \E jb \in Events("get", b.path) :
       /\ Writes(<<"A">>, jb) # {}
       /\ trace[Last(Writes(<<"A">>, jb))].val = <<"7">>
       /\ trace[jb].val = Port(<<"7">>)
       /\ At(target, b.path) = Port(<<"7">>)

(***************************************************************************)
(* notEmpty                                                                *)
(***************************************************************************)
\* the raw values that hold no reference, and the one that refers to Z,
\* a name no environment and no field of these programs defines
Unreferring == {<<>>, <<"7">>, <<"8">>, <<"x">>}

\* what expansion makes of the raw value of a leaf
Expanded(l) ==
  IF HasOpt(l.fld, "expand") /\ RawValue(l) = <<"$", "Z">>
    THEN <<>>
    ELSE RawValue(l)

NotEmptyLeaves ==
  {l \in Leaves : /\ IsScalar(l.fld.type) /\ HasOpt(l.fld, "notEmpty")
                   /\ WellTagged(l.fld) /\ ~Ignored(l.fld)
                   /\ RawValue(l) \in Unreferring \cup {<<"$", "Z">>}}

\* the field is left as it was, and neither the observer nor the parser
\* saw it
Skipped(l) ==
  /\ At(target, l.path) = At(pre, l.path)
  /\ Events("onset", l.path) = {}
  /\ Events("set", l.path) = {}

\* C10 as stated: a notEmpty field whose value after default fallback and
\* expansion is empty fails with ErrEmptyVar naming its key and is skipped;
\* with the key absent or empty and a non-empty default declared its
\* resolution succeeds with the default.
C10_EmptyFailsDefaultSucceeds ==
  Bound =>
    \A l \in NotEmptyLeaves :
      /\ Events("get", l.path) # {}
      /\ \A j \in Events("get", l.path) :
           /\ Expanded(l) = <<>>
              => (trace[j].err = Err("ErrEmptyVar", l.key) /\ Skipped(l))
           /\ (AbsentOrEmpty(l.key) /\ l.fld.hasDef /\ l.fld.def # <<>>)
              => (trace[j].err = NoErr /\ trace[j].val = l.fld.def)

\* the required check fails for the leaf
RequiredMissing(l) ==
  /\ HasOpt(l.fld, "required") \/ ret.opts.RequiredIfNoDef
  /\ l.fld.key # <<>>
  /\ l.key \notin DOMAIN Snapshot
  /\ ~l.fld.hasDef

\* C10 amended: a notEmpty field whose value after default fallback and
\* expansion is empty fails and is skipped, with ErrVarIsNotSet when the
\* required check fails for it and with ErrEmptyVar otherwise; with the key
\* absent or empty and a default that is non-empty after expansion, a field
\* not tagged file resolves to the expanded default.
C10_EmptyFailsAfterRequired ==
  Bound =>
    \A l \in NotEmptyLeaves :
      /\ Events("get", l.path) # {}
      /\ \A j \in Events("get", l.path) :
           /\ Expanded(l) = <<>>
              => /\ trace[j].err =
                      Err(IF RequiredMissing(l) THEN "ErrVarIsNotSet"
                          ELSE "ErrEmptyVar", l.key)
                 /\ Skipped(l)
           /\ (/\ AbsentOrEmpty(l.key) /\ l.fld.hasDef
               /\ Expanded(l) # <<>> /\ ~HasOpt(l.fld, "file"))
              => (trace[j].err = NoErr /\ trace[j].val = Expanded(l))

\* A populated notEmpty field whose key is present with the empty string:
\* ErrEmptyVar, the field as it was, the installed observer not called.
C10_Witness ==
  /\ ret.op = "ParseWithOptions"
  /\ ret.opts.OnSet
  /\ \E l \in NotEmptyLeaves : \E j \in Events("get", l.path) :
       /\ l.key \in DOMAIN Snapshot
       /\ Expanded(l) = <<>>
       /\ trace[j].err = Err("ErrEmptyVar", l.key)
       /\ At(pre, l.path) = <<"q">>
       /\ Skipped(l)


(***************************************************************************)
(* Unsupported tag options                                                 *)
(***************************************************************************)
\* Every field of struct type t and of the plain struct fields beneath it,
\* leaf or not, with its position, the prefix the walk reaches it with and
\* its fully-qualified key.
RECURSIVE AllFields(_, _, _)
AllFields(t, prefix, path) ==
  UNION {LET f == t.fields[i]
         IN {[path |-> Append(path, i), fld |-> f, prefix |-> prefix,
              key |-> prefix \o f.key]}
            \cup (IF IsPlainStruct(f)
                    THEN AllFields(f.type, prefix \o f.prefix,
                                   Append(path, i))
                    ELSE {})
           : i \in 1..Len(t.fields)}

Fields == AllFields(rootType, ret.opts.Prefix, <<>>)

\* the fields whose tag holds a non-empty option outside the vocabulary
BadlyTagged == {f \in Fields : ~WellTagged(f.fld)}

\* the events of the walk at or beneath path p, other than the returns of
\* doParseField
TouchedAt(p) ==
  {j \in 1..Len(trace) : Beneath(trace[j].path, p) /\ trace[j].e # "ret"}

\* the events that record the return of doParseField for the field at p
ReturnsAt(p) == Events("ret", p)

\* what C11 says of field f
StoppedAtTag(f) ==
  /\ ReturnsAt(f.path) # {}
  /\ \A j \in ReturnsAt(f.path) :
       trace[j].err = Err("ErrNoSupportedTagOption", <<>>)
  /\ TouchedAt(f.path) = {}
  /\ At(target, f.path) = At(pre, f.path)
  /\ (ret.op = "Parse" /\ f.key \in DOMAIN Snapshot) => f.key \in DOMAIN live

Descended(f) ==
  \/ isStructPtr(f.fld.type) /\ ~At(pre, f.path).nil
  \/ f.fld.type.k = "struct" /\ f.fld.type.name = ""

WalkedAfter(j) ==
  {h \in (j + 1)..Len(trace) : trace[h].e \in {"leaf", "raw", "get", "onset",
                                                "set"}}

\* C12: a bad tag aborts the bind: once doParseField has returned
\* ErrNoSupportedTagOption for a field, no later field is handed to the leaf
\* action, resolved or assigned, and Parse returns that error.
C12_BadTagAbortsBind ==
  Bound =>
    \A f \in BadlyTagged : \A j \in ReturnsAt(f.path) :
      trace[j].err = Err("ErrNoSupportedTagOption", <<>>)
      => /\ WalkedAfter(j) = {}
         /\ Returned(Err("ErrNoSupportedTagOption", <<>>))

\* the string that formats the value v of a built-in scalar type
FormatValue(t, v) ==
  CASE t.k = "bool" -> FormatBool(v)
    [] t.k = "int"  -> FormatInt(v)
    [] t.k \in NumberKinds -> FormatNumber(v)

\* the leaf fields of a built-in boolean or integer kind, tagged with a key
\* only, whose key holds the string that formats a value of the kind on a
\* build with the given word size
FormattedLeaves(intSize) ==
  {l \in Leaves : /\ l.fld.type.k \in ScalarKinds
                   /\ l.fld.key # <<>> /\ l.fld.tagopts = <<>>
                   /\ ~l.fld.hasDef
                   /\ l.key \in DOMAIN Snapshot
                   /\ Snapshot[l.key] \in Formatted(l.fld.type.k, intSize)}

\* C13: for every built-in boolean and integer kind, machine-width int and
\* uint included, and every value representable in the kind, binding a
\* field of the kind from the string that formats the value succeeds and
\* leaves the field equal to the value (the field formats to that string).
C13_ScalarRoundTrip ==
  Bound =>
    \A size \in IntSizes : \A l \in FormattedLeaves(size) :
      /\ ret.err = <<>>
      /\ FormatValue(l.fld.type, At(target, l.path)) = Snapshot[l.key]

\* the fields of the root struct of a scalar type T or *T, tagged with a
\* key only, whose key holds a non-empty value in the snapshot
KeyedScalars ==
  {i \in 1..Len(rootType.fields) :
     LET f == rootType.fields[i]
     IN /\ f.type.k \notin {"struct", "slice", "map"}
        /\ f.type.k = "ptr" => f.type.elem.k \notin {"struct", "slice", "map", "ptr"}
        /\ f.key # <<>> /\ f.tagopts = <<>> /\ ~f.hasDef
        /\ (ret.opts.Prefix \o f.key) \in DOMAIN Snapshot
        /\ Snapshot[ret.opts.Prefix \o f.key] # <<>>}

\* the type a field's parser is looked up by, and the value the field holds
Pointee(t) == IF t.k = "ptr" THEN t.elem ELSE t

Held(i) ==
  IF rootType.fields[i].type.k = "ptr" THEN target[i].v ELSE target[i]

\* the lookup in the order the claim gives: the concrete-type table, then
\* the built-in parser of the kind, then the type's UnmarshalText
LookupInClaimedOrder(funcMap, typee, v) ==
  IF InFuncMap(funcMap, typee) THEN ApplyParser(funcMap, typee, v)
  ELSE IF HasBuiltInParser(typee) THEN BuiltInParse(typee, v)
  ELSE UnmarshalText(typee, v)

\* C14: the parser of a leaf field with a non-empty resolved value is
\* looked up in the concrete-type table first, then among the built-in
\* parsers by kind, then in the type's text-unmarshal capability; a field
\* whose type implements text-unmarshal and has a registered concrete-type
\* parser holds what the registered parser produced.
C14_RegistryBeforeTextUnmarshal ==
  Bound =>
    \A i \in KeyedScalars :
      LET f == rootType.fields[i]
          r == LookupInClaimedOrder(ret.opts.FuncMap, Pointee(f.type),
                                    Snapshot[ret.opts.Prefix \o f.key])
      IN r.ok => Held(i) = r.v

\* a type with an entry in the concrete-type table whose kind also has a
\* built-in parser
Overridden(t) == InFuncMap(ret.opts.FuncMap, t) /\ HasBuiltInParser(t)

\* what the field held before the bind, a nil pointer counted as the zero
\* value the bind allocates
PreHeld(i) ==
  IF rootType.fields[i].type.k # "ptr" THEN pre[i]
  ELSE IF pre[i].nil THEN Zero(rootType.fields[i].type.elem)
  ELSE pre[i].v

\* the fields of the root struct of a list or map type, tagged with a key
\* only, whose key holds a non-empty value in the snapshot
KeyedCollections(kind) ==
  {i \in 1..Len(rootType.fields) :
     LET f == rootType.fields[i]
     IN /\ f.type.k = kind
        /\ f.key # <<>> /\ f.tagopts = <<>> /\ ~f.hasDef
        /\ (ret.opts.Prefix \o f.key) \in DOMAIN Snapshot
        /\ Snapshot[ret.opts.Prefix \o f.key] # <<>>}

ValueOf(i) == Snapshot[ret.opts.Prefix \o rootType.fields[i].key]

\* the element of a list, a pointer element dereferenced
Elem(t, e) == IF t.elem.k = "ptr" THEN e.v ELSE e

\* the parser the claim gives a map key or value type
ByEntryOrKind(t, v) ==
  IF InFuncMap(ret.opts.FuncMap, t) THEN ApplyParser(ret.opts.FuncMap, t, v)
  ELSE BuiltInParse(t, v)

\* the pairs of a map value, when each has a key and a value
WellFormedPairs(v) ==
  LET parts == Split(v, ",")
  IN IF \A j \in 1..Len(parts) : Len(Split(parts[j], ":")) = 2
       THEN {Split(parts[j], ":") : j \in 1..Len(parts)}
       ELSE {}

\* C15: a type with an entry in the concrete-type table whose kind also has
\* a built-in parser is parsed by the entry, never by the parser of the
\* kind: a scalar field, each element of a list, each key and value of a
\* map holds what the entry produced, and where the entry fails nothing is
\* stored.
C15_EntryBeforeKind ==
  Bound =>
    /\ \A i \in KeyedScalars :
         LET t == Pointee(rootType.fields[i].type)
             r == ApplyParser(ret.opts.FuncMap, t, ValueOf(i))
         IN Overridden(t) =>
              Held(i) = IF r.ok THEN r.v ELSE PreHeld(i)
    /\ \A i \in KeyedCollections("slice") :
         LET st    == rootType.fields[i].type
             t     == Pointee(st.elem)
             parts == Split(ValueOf(i), ",")
         IN Overridden(t) =>
              IF \A j \in 1..Len(parts) :
                   ApplyParser(ret.opts.FuncMap, t, parts[j]).ok
                THEN /\ Len(target[i].elems) = Len(parts)
                     /\ \A j \in 1..Len(parts) :
                          Elem(st, target[i].elems[j])
                            = ApplyParser(ret.opts.FuncMap, t, parts[j]).v
                ELSE target[i] = pre[i]
    /\ \A i \in KeyedCollections("map") :
         LET mt    == rootType.fields[i].type
             pairs == WellFormedPairs(ValueOf(i))
         IN (Overridden(mt.key) \/ Overridden(mt.elem)) =>
              IF /\ pairs # {}
                 /\ \A p \in pairs : /\ ByEntryOrKind(mt.key, p[1]).ok
                                      /\ ByEntryOrKind(mt.elem, p[2]).ok
                THEN /\ DOMAIN target[i].m
                          = {ByEntryOrKind(mt.key, p[1]).v : p \in pairs}
                     /\ \A k \in DOMAIN target[i].m :
                          \E p \in pairs :
                            /\ ByEntryOrKind(mt.key, p[1]).v = k
                            /\ ByEntryOrKind(mt.elem, p[2]).v = target[i].m[k]
                ELSE target[i] = pre[i]

\* the leaf fields that read their key as it is: no default, no expansion,
\* no file
PlainReaders ==
  {l \in Leaves : /\ WellTagged(l.fld) /\ ~Ignored(l.fld) /\ ~l.fld.hasDef
                   /\ l.fld.key # <<>>
                   /\ ~HasOpt(l.fld, "expand") /\ ~HasOpt(l.fld, "file")}

\* the values the bind resolved for the leaf l
Observed(l) ==
  {trace[j].val : j \in {n \in Events("get", l.path) : trace[n].err = NoErr}}

\* any two plain readers of one fully-qualified key resolved the same value
SameKeySameValue ==
  \A l1 \in PlainReaders : \A l2 \in PlainReaders :
    l1.key = l2.key => \A v1 \in Observed(l1) : \A v2 \in Observed(l2) : v1 = v2

\* C16: a call of Parse, ParseWithOptions or GetFieldParamsWithOptions
\* leaves the snapshot it ran with equal to the one it was given (the
\* process environment at the call, for Parse), whatever the tags and the
\* errors, and leaves the caller's Options.Environment as it was; two fields
\* that read the same fully-qualified key in the bind resolve the same
\* value, even when the first is tagged unset.
C16_SnapshotIsImmutable ==
  [][/\ ret'.opts.Environment
          = IF ret'.op = "Parse" THEN live ELSE options.Environment
     /\ options'.Environment = options.Environment
     /\ SameKeySameValue']_vars

\* Two fields read K = 7, the first tagged unset: K is gone from the
\* process environment, still in the snapshot, and the second field holds 7.
C16_Witness ==
  /\ Bound
  /\ \E l1 \in PlainReaders : \E l2 \in PlainReaders :
       /\ l1.key = l2.key /\ l1.path[1] < l2.path[1]
       /\ HasOpt(l1.fld, "unset")
       /\ l1.key \in DOMAIN Snapshot /\ Snapshot[l1.key] = <<"7">>
       /\ l1.key \notin DOMAIN live
       /\ At(target, l1.path) = <<"7">> /\ At(target, l2.path) = <<"7">>

\* the counters NewCounter returned for a name
ReturnedFor(name) ==
  {held[i][2] : i \in {j \in 1..Len(held) : held[j][1] = name}} \ {0}

\* C17: NewCounter creates a counter on the first call for a name and
\* returns the cached one on later calls: whatever the factory's service
\* name, any two calls with the same name return the same counter object.
C17_SameNameSameCounter ==
  \A name \in CounterNames : Cardinality(ReturnedFor(name)) <= 1

\* the scalar leaf fields the Value Resolver is run for
Resolved ==
  {l \in Leaves : IsScalar(l.fld.type) /\ WellTagged(l.fld) /\ ~Ignored(l.fld)}

\* C18: the Value Resolver fails with ErrVarIsNotSet exactly when the field
\* is required (by its tag or by RequiredIfNoDef), its fully-qualified key
\* is absent from the snapshot, it declares no default and its own key is
\* non-empty; a key present with the empty string, a declared default or
\* an empty own key give no ErrVarIsNotSet.
C18_RequiredMissingExactly ==
  Bound =>
    \A l \in Resolved :
      /\ Events("get", l.path) # {}
      /\ \A j \in Events("get", l.path) :
           (trace[j].err = Err("ErrVarIsNotSet", l.key)) <=> RequiredMissing(l)

\* A field made required by RequiredIfNoDef alone fails with its key
\* absent.
C18_Witness ==
  /\ Bound
  /\ \E l \in Resolved :
       /\ ~HasOpt(l.fld, "required") /\ RequiredMissing(l)
       /\ \E j \in Events("get", l.path) :
            trace[j].err = Err("ErrVarIsNotSet", l.key)

\* the string fields tagged expand whose raw value ends in a reference to
\* A: "port-${A}" or "${A}"
Referring ==
  {l \in Leaves : /\ l.fld.type = TString /\ HasOpt(l.fld, "expand")
                   /\ WellTagged(l.fld) /\ ~Ignored(l.fld)
                   /\ RawValue(l) \in {PortRef, RefA}}

\* the text in front of the reference
Before(l) == IF RawValue(l) = PortRef THEN Port(<<>>) ELSE <<>>

\* what the claim gives ${A} when the field resolved at position j of the
\* walk expands it
Lookup(j) ==
  LET W == Writes(<<"A">>, j)
  IN IF W # {} /\ trace[Last(W)].val # <<>> THEN trace[Last(W)].val
     ELSE IF <<"A">> \in DOMAIN Snapshot THEN Snapshot[<<"A">>]
     ELSE <<>>

\* C19: ${A} in a field tagged expand is replaced by the value most
\* recently recorded in the raw-value table under the own key A (whatever
\* the prefix of the field that recorded it) if that value is non-empty,
\* otherwise by the snapshot's value of A, otherwise by the empty string;
\* only fields resolved earlier in the walk are visible, so a reference to
\* a field declared later whose value comes from its default expands to
\* the empty string.
C19_ExpansionLookup ==
  Bound =>
    \A b \in Referring :
      /\ Events("raw", b.path) # {}
      /\ \A j \in Events("raw", b.path) :
           trace[j].val = Before(b) \o Lookup(j)

\* B is declared before A, whose value is its default 7 only: B expands
\* ${A} to the empty string and A holds 7.
C19_Witness ==
  /\ Bound
  /\ \E b \in Referring : \E a \in Leaves :
       /\ a.fld.key = <<"A">> /\ a.fld.hasDef /\ b.path[1] < a.path[1]
       /\ a.key \notin DOMAIN Snapshot
       /\ At(target, a.path) = <<"7">> /\ At(target, b.path) = <<>>
       /\ \E j \in Events("raw", b.path) : trace[j].val = <<>>

\* the fully-qualified key of field g of element j of the slice field f
ElementKey(f, j, g) == IndexedPrefix(f) \o Itoa(j) \o <<"_">> \o g.key

\* C20: a pre-populated slice-of-struct field for which the Slice Assembler
\* discovers n >= 1 indexed instances ends with length n; in every element
\* that exists before and after, a field with no key in the environment and
\* no declared default keeps its pre-populated value and a field with a key
\* in the environment takes the environment's value.
C20_PrePopulatedSliceHasDiscoveredLength ==
  Bound =>
    \A i \in StructSlices :
      LET f == rootType.fields[i]
          n == FirstGap(IndexedPrefix(f))
      IN (Assembled(i) /\ ~pre[i].nil /\ Len(pre[i].elems) >= 1 /\ n >= 1) =>
           /\ Len(target[i].elems) = n
           /\ \A j \in 0..(n - 1) :
                (j < Len(pre[i].elems) /\ j < Len(target[i].elems)) =>
                  \A x \in 1..Len(f.type.elem.fields) :
                    LET g == f.type.elem.fields[x]
                        k == ElementKey(f, j, g)
                    IN /\ (k \notin DOMAIN Snapshot /\ ~g.hasDef)
                          => target[i].elems[j + 1][x]
                               = pre[i].elems[j + 1][x]
                       /\ (k \in DOMAIN Snapshot /\ Snapshot[k] # <<>>)
                          => target[i].elems[j + 1][x]
                               = BuiltInParse(g.type, Snapshot[k]).v

(***************************************************************************)
(* Slices of pointers to structs                                           *)
(***************************************************************************)
\* the positions of the target's fields of a type []*S, S a struct type
PtrStructSlices ==
  {i \in 1..Len(rootType.fields) :
     LET t == rootType.fields[i].type
     IN t.k = "slice" /\ isStructPtr(t.elem)}

\* C21: a nil slice field of element type pointer-to-struct is assembled
\* like a slice of structs: with keys for the indices 0..n-1 under its
\* prefix, n >= 1, the bind completes without a panic and the field holds n
\* non-nil elements, element j bound from the keys <prefix><j>_<own key>.
C21_PointerElementsAreAssembled ==
  Called =>
    \A i \in PtrStructSlices :
      LET f == rootType.fields[i]
          p == IndexedPrefix(f)
          n == FirstGap(p)
      IN (~Ignored(f) /\ WellTagged(f) /\ pre[i].nil /\ n >= 1) =>
           /\ ~ret.panic
           /\ Len(target[i].elems) = n
           /\ \A j \in 0..(n - 1) :
                /\ ~target[i].elems[j + 1].nil
                /\ \A x \in 1..Len(f.type.elem.elem.fields) :
                     LET g == f.type.elem.elem.fields[x]
                     IN target[i].elems[j + 1].v[x]
                          = BoundFrom(g, p \o Itoa(j) \o <<"_">> \o g.key)

(***************************************************************************)
(* init                                                                    *)
(***************************************************************************)
\* the fields of the root struct that are nil pointers to a struct when the
\* bind is called, not ignored and well tagged
NilStructPtrs ==
  {i \in 1..Len(rootType.fields) :
     LET f == rootType.fields[i]
     IN /\ isStructPtr(f.type) /\ pre[i].nil
        /\ ~Ignored(f) /\ WellTagged(f)}

\* the pointee type of the i-th field has an entry in the parser registry
Registered(i) == InFuncMap(ret.opts.FuncMap, rootType.fields[i].type.elem)

\* no non-empty value was resolved for the i-th field
NoValue(i) == \A j \in Events("get", <<i>>) : trace[j].val = <<>>

\* C22: for a field tagged init that is a nil pointer to a struct whose
\* pointee type has an entry in the parser registry, and for which no value
\* is resolved, initialization is skipped: the field is still nil after
\* Parse and the fields of the pointee are not walked.
C22_RegisteredPointeeIsNotInitialized ==
  Bound =>
    \A i \in NilStructPtrs :
      (HasOpt(rootType.fields[i], "init") /\ Registered(i) /\ NoValue(i))
      => target[i].nil /\ Below(i) = {}

\* the i-th field points to a struct whose fields are bound, from their
\* zero values, with the prefix extended by the field's envPrefix tag
InitBinding(i) ==
  LET f == rootType.fields[i]
  IN /\ ~target[i].nil
     /\ \A x \in 1..Len(f.type.elem.fields) :
          LET g == f.type.elem.fields[x]
          IN target[i].v[x] = BoundFrom(g, ret.opts.Prefix \o f.prefix \o g.key)

\* the i-th field is as it was and nothing beneath it was resolved
LeftNil(i) == target[i].nil /\ Below(i) = {}

\* C23 as stated: a nil pointer-to-struct field whose pointee type is not in
\* the parser registry and for which no non-empty value is resolved is
\* non-nil after Parse if and only if it is tagged init; tagged init, its
\* pointee is bound with the extended prefix, and without init it stays nil
\* and nothing beneath it is resolved.
C23_InitDecidesAllocation ==
  Bound =>
    \A i \in NilStructPtrs :
      (~Registered(i) /\ NoValue(i)) =>
        IF HasOpt(rootType.fields[i], "init") THEN InitBinding(i)
        ELSE LeftNil(i)

\* value resolution returned no error for the i-th field
Resolves(i) == \A j \in Events("get", <<i>>) : trace[j].err = NoErr

\* C23 amended: such a field is non-nil after Parse if and only if it is
\* tagged init and its own value resolution returns no error; then its
\* pointee is bound with the extended prefix, and otherwise it stays nil
\* and nothing beneath it is resolved.
C23_InitAllocatesAfterResolution ==
  Bound =>
    \A i \in NilStructPtrs :
      (~Registered(i) /\ NoValue(i)) =>
        IF HasOpt(rootType.fields[i], "init") /\ Resolves(i)
          THEN InitBinding(i)
          ELSE LeftNil(i)

\* An init-tagged nil *Item with P_N = a in the environment points to an
\* Item with N = a and D = d.
C23_Witness ==
  /\ Bound
  /\ \E i \in NilStructPtrs :
       /\ ~Registered(i) /\ NoValue(i) /\ Resolves(i)
       /\ HasOpt(rootType.fields[i], "init")
       /\ (ret.opts.Prefix \o rootType.fields[i].prefix \o <<"N">>)
             \in DOMAIN Snapshot
       /\ ~target[i].nil
       /\ target[i].v[1] = <<"a">> /\ target[i].v[3] = <<"d">>

(***************************************************************************)
(* unset                                                                   *)
(***************************************************************************)
\* the leaves whose raw value the programs' values and defaults give
Plain == {l \in Resolved : RawValue(l) \in Unreferring \cup {<<"$", "Z">>}}

\* the outcome of the value resolution of leaf l as its key, default and
\* options other than unset give it
Outcome(l) ==
  IF RequiredMissing(l) THEN Err("ErrVarIsNotSet", l.key)
  ELSE IF HasOpt(l.fld, "notEmpty") /\ Expanded(l) = <<>>
    THEN Err("ErrEmptyVar", l.key)
  ELSE IF /\ HasOpt(l.fld, "file") /\ Expanded(l) # <<>>
          /\ Expanded(l) \notin DOMAIN files
    THEN Err("ErrLoadFileContent", l.key)
  ELSE NoErr

\* C24: for a field tagged unset the fully-qualified key is gone from the
\* live process environment once its value resolution has returned,
\* whether it succeeded or failed with ErrVarIsNotSet, ErrEmptyVar or
\* ErrLoadFileContent, and the outcome is the one the field has without
\* the unset option.
C24_UnsetInEveryOutcome ==
  Bound =>
    \A l \in Plain :
      /\ Events("get", l.path) # {}
      /\ \A j \in Events("get", l.path) : trace[j].err = Outcome(l)
      /\ HasOpt(l.fld, "unset") => l.key \notin DOMAIN live

\* A field tagged unset and file whose key names a file that does not
\* exist: ErrLoadFileContent, and the key is gone.
C24_Witness ==
  /\ Bound
  /\ \E l \in Plain :
       /\ HasOpt(l.fld, "unset")
       /\ l.key \in DOMAIN Snapshot /\ l.key \notin DOMAIN live
       /\ \E j \in Events("get", l.path) :
            trace[j].err = Err("ErrLoadFileContent", l.key)

(***************************************************************************)
(* The on-set observer                                                     *)
(***************************************************************************)
\* the final value of leaf l when its resolution succeeds: the value after
\* default fallback and expansion, or the contents of the file it names
Final(l) ==
  IF HasOpt(l.fld, "file") /\ Expanded(l) # <<>> THEN files[Expanded(l)]
  ELSE Expanded(l)

\* the value of leaf l comes from its declared default
FromDefault(l) == l.fld.hasDef /\ AbsentOrEmpty(l.key)

\* C25: with an observer supplied, it is called exactly once for each
\* leaf-processed field with a non-empty own key whose value resolution
\* returns no error, with the fully-qualified key, the final value (after
\* expansion and file loading) and whether the value came from the
\* declared default, also when the final value is empty or the later
\* parsing fails; it is never called for a field whose resolution fails or
\* whose own key is empty.
C25_ObserverCalledOncePerResolvedField ==
  (Bound /\ ret.opts.OnSet) =>
    /\ \A l \in Plain :
         IF l.fld.key # <<>> /\ Outcome(l) = NoErr
           THEN /\ Cardinality(Events("onset", l.path)) = 1
                /\ \A j \in Events("onset", l.path) :
                     /\ trace[j].key = l.key
                     /\ trace[j].val = Final(l)
                     /\ trace[j].def = FromDefault(l)
           ELSE Events("onset", l.path) = {}
    \* every leaf-processed field, of whatever type and at whatever depth
    /\ \A p \in {trace[j].path : j \in 1..Len(trace)} :
         Cardinality(Events("onset", p))
           = IF /\ \E j \in Events("get", p) : trace[j].err = NoErr
                /\ \E j \in Events("raw", p) : trace[j].key # <<>>
               THEN 1 ELSE 0

\* An int field whose key holds "x": the observer is called once with "x",
\* not from the default, and the parse that follows fails.
C25_Witness ==
  /\ Bound /\ ret.opts.OnSet
  /\ \E l \in Plain :
       /\ l.fld.type = TInt /\ l.fld.key # <<>>
       /\ \E j \in Events("onset", l.path) :
            trace[j].val = <<"x">> /\ ~trace[j].def
       /\ \E j \in Events("set", l.path) : trace[j].err # NoErr

(***************************************************************************)
(* file                                                                    *)
(***************************************************************************)
\* the leaves tagged file
FileLeaves == {l \in Plain : HasOpt(l.fld, "file")}

\* the type is parsed by the built-in parser of its kind
BuiltIn(t) ==
  ~InFuncMap(ret.opts.FuncMap, t) /\ ~IsTextUnmarshaler(t)

\* the raw-value table was not written under own key k after position j
LastWrite(k, j) ==
  \A h \in (j + 1)..Len(trace) : ~(trace[h].e = "raw" /\ trace[h].key = k)

\* C26: for a field tagged file, a non-empty resolved value is a path and
\* the contents of the file are the final value, parsed into the field; a
\* failing read gives ErrLoadFileContent and the field is not assigned; an
\* empty resolved value reads no file; and the raw-value table entry of
\* the own key holds the path, not the contents.
C26_FileContentsReplaceThePath ==
  Bound =>
    \A l \in FileLeaves :
      LET path == Expanded(l)
      IN /\ Events("get", l.path) # {}
         /\ \A j \in Events("get", l.path) :
              /\ (path # <<>> /\ path \in DOMAIN files) =>
                   /\ trace[j].err = NoErr
                   /\ trace[j].val = files[path]
                   /\ (/\ files[path] # <<>> /\ BuiltIn(l.fld.type)
                       /\ BuiltInParse(l.fld.type, files[path]).ok)
                      => At(target, l.path)
                           = BuiltInParse(l.fld.type, files[path]).v
              /\ (path # <<>> /\ path \notin DOMAIN files) =>
                   /\ trace[j].err = Err("ErrLoadFileContent", l.key)
                   /\ At(target, l.path) = At(pre, l.path)
                   /\ Events("set", l.path) = {}
              /\ path = <<>> =>
                   /\ trace[j].err # Err("ErrLoadFileContent", l.key)
                   /\ trace[j].val = <<>>
         /\ Events("raw", l.path) # {}
         /\ \A j \in Events("raw", l.path) :
              /\ trace[j].key = l.fld.key
              /\ trace[j].val = path
              /\ LastWrite(l.fld.key, j) => raw[l.fld.key] = path

\* An int field tagged file whose key holds the path "7" of a file that
\* holds "5": the field is 5 and the table holds "7".
C26_Witness ==
  /\ Bound
  /\ \E l \in FileLeaves :
       /\ l.fld.type = TInt /\ Expanded(l) = <<"7">>
       /\ files[<<"7">>] = <<"5">>
       /\ At(pre, l.path) # 5 /\ At(target, l.path) = 5
       /\ raw[l.fld.key] = <<"7">>

(***************************************************************************)
(* Fully-qualified keys                                                    *)
(***************************************************************************)
\* the type beneath a pointer
Under(t) == IF t.k = "ptr" THEN t.elem ELSE t

\* a non-empty prefix ends in an underscore
Underscored(p) ==
  IF p # <<>> /\ p[Len(p)] # "_" THEN p \o <<"_">> ELSE p

\* The key of the field at a position of the target as the declarations
\* along the way give it: the nested-prefix tag of each enclosing struct or
\* pointer-to-struct field, "<index>_" for each enclosing slice element
\* (after the slice field's prefix, underscored), then the own key.
RECURSIVE KeyAlong(_, _, _)
KeyAlong(t, path, prefix) ==
  LET f  == t.fields[path[1]]
      ft == Under(f.type)
  IN IF Len(path) = 1 THEN prefix \o f.key
     ELSE IF ft.k = "slice"
       THEN KeyAlong(Under(ft.elem), Tail(Tail(path)),
                     Underscored(prefix \o f.prefix) \o Itoa(path[2])
                       \o <<"_">>)
     ELSE KeyAlong(ft, Tail(path), prefix \o f.prefix)

\* the events of the trace in which a field's fully-qualified key is used
Lookups ==
  {j \in 1..Len(trace) : trace[j].e \in {"leaf", "get", "onset", "set"}}

\* C27: in every bind the key looked up for a field is the initial
\* Options.Prefix, then the nested-prefix tag value of each enclosing struct
\* or pointer-to-struct field and "<index>_" for each enclosing slice
\* element (an underscore appended to a non-empty slice prefix that has
\* none), then the field's own key, and nothing else.
C27_KeyIsPrefixPathThenOwnKey ==
  (Bound \/ Introspected) =>
    \A j \in Lookups :
      trace[j].key = KeyAlong(rootType, trace[j].path, ret.opts.Prefix)

\* Under Options.Prefix "O_", the field X of the field L of element 0 of
\* the slice tagged envPrefix "IT" in the struct tagged "P_" is read from
\* O_P_IT_0_L_X.
C27_Witness ==
  /\ Bound
  /\ ret.opts.Prefix = <<"O", "_">>
  /\ \E j \in Lookups :
       /\ trace[j].e = "get" /\ trace[j].path = <<1, 2, 0, 2, 1>>
       /\ rootType.fields[1].type.fields[2].prefix = <<"I", "T">>
       /\ trace[j].key
            = <<"O", "_", "P", "_", "I", "T", "_", "0", "_", "L", "_", "X">>
       /\ trace[j].val = trace[j].key

(***************************************************************************)
(* Leaves left alone                                                       *)
(***************************************************************************)
\* a scalar, a pointer to a scalar, a list of them or a map
IsLeafShape(t) ==
  /\ Under(t).k # "struct"
  /\ ~(Under(t).k = "slice" /\ Under(Under(t).elem).k = "struct")

\* the fields of the root struct of a leaf shape that the leaf action of
\* Parse is run for
ShapedFields ==
  {i \in 1..Len(rootType.fields) :
     /\ IsLeafShape(rootType.fields[i].type)
     /\ Events("get", <<i>>) # {}}

\* C28: a leaf field whose final resolved value is the empty string (key
\* absent without a default, empty value without a default, empty default,
\* empty file contents) is left exactly as it was before the bind: a
\* pre-populated value is not reset and a nil pointer stays nil.
C28_EmptyValueLeavesField ==
  Bound =>
    /\ \A l \in Plain :
         (Outcome(l) = NoErr /\ Final(l) = <<>>) =>
           /\ At(target, l.path) = At(pre, l.path)
           /\ Events("set", l.path) = {}
    /\ \A i \in ShapedFields :
         (\A j \in Events("get", <<i>>) :
            trace[j].err = NoErr /\ trace[j].val = <<>>)
         => target[i] = pre[i] /\ Events("set", <<i>>) = {}

\* A nil *int tagged file whose key names an empty file is still nil.
C28_Witness ==
  /\ Bound
  /\ \E i \in ShapedFields :
       /\ rootType.fields[i].type = TPtr(TInt)
       /\ HasOpt(rootType.fields[i], "file")
       /\ rootType.fields[i].key \in DOMAIN Snapshot
       /\ Snapshot[rootType.fields[i].key] \in DOMAIN files
       /\ \E j \in Events("get", <<i>>) :
            trace[j].err = NoErr /\ trace[j].val = <<>>
       /\ pre[i].nil /\ target[i].nil

(***************************************************************************)
(* The caller's Options                                                    *)
(***************************************************************************)
\* C29: ParseWithOptions and GetFieldParamsWithOptions do not modify the
\* caller's Options: the caller's FuncMap holds after the call exactly the
\* entries it held before, the built-in parsers being merged into a
\* registry private to the call.
C29_CallersOptionsUnchanged == [][options' = options]_vars

(***************************************************************************)
(* Failed parses                                                           *)
(***************************************************************************)
\* set failed for the i-th field with ErrParseValue or ErrNoParser
ParseFailed(i) ==
  \E j \in Events("set", <<i>>) :
    trace[j].err.kind \in {"ErrParseValue", "ErrNoParser"}

\* C30: when parsing the non-empty value of a leaf field (a scalar, a
\* pointer to a scalar, a list or a map) fails with ErrParseValue or
\* ErrNoParser, the field holds after the bind exactly the value it held
\* before: no partially built slice or map is stored, and a pointer that
\* was nil is still nil.
C30_FailedParseLeavesField ==
  Bound => \A i \in ShapedFields : ParseFailed(i) => target[i] = pre[i]

====
